---- MODULE Spec2Model ----
(***************************************************************************)
(* A model of the parmacl command line parser (src/parmacl/src).           *)
(*                                                                         *)
(* A character is a one-character string, a text is a sequence of          *)
(* characters.  An Option<T> of the source is a sequence of length 0       *)
(* (None) or 1 (Some).  All characters of the model are ASCII, so the     *)
(* byte offsets the source slices with are character offsets.              *)
(***************************************************************************)
EXTENDS Integers, Sequences, FiniteSets, TLC

VARIABLES
    parser,     \* the Parser: its properties and its matcher list
    mode,       \* "line": parse_line runs, "env": parse_env_args runs
    input,      \* the texts handed in: <<line>>, or the environment arguments
    arg_no,     \* 0-based index of the text the loop is in
    pos,        \* number of characters of that text the loop has taken
    pc,         \* "arg" (top of parse_env_args' outer loop), "chars" (in the
                \* character loop), "finalise" (loops left), "done" (returned)
    parse_state,\* the ParseState of the running parse
    args,       \* the Args vector being built
    result      \* what the parse function returned (once pc = "done")

vars == <<parser, mode, input, arg_no, pos, pc, parse_state, args, result>>

(***************************************************************************)
(* Characters                                                              *)
(***************************************************************************)
None == <<>>
Some(x) == <<x>>

Space == " "
Quote == "\""
Dash == "-"

\* char::is_whitespace, on the characters of the model
IsWhitespace(c) == c \in {" ", "\t"}

\* str::to_uppercase, character by character, on the letters of the model
UpperChar(c) ==
    CASE c = "a" -> "A" [] c = "b" -> "B" [] c = "c" -> "C" [] c = "d" -> "D"
      [] c = "e" -> "E" [] c = "f" -> "F" [] c = "g" -> "G" [] c = "h" -> "H"
      [] c = "i" -> "I" [] c = "j" -> "J" [] c = "k" -> "K" [] c = "l" -> "L"
      [] c = "m" -> "M" [] c = "n" -> "N" [] c = "o" -> "O" [] c = "p" -> "P"
      [] c = "q" -> "Q" [] c = "r" -> "R" [] c = "s" -> "S" [] c = "t" -> "T"
      [] c = "u" -> "U" [] c = "v" -> "V" [] c = "w" -> "W" [] c = "x" -> "X"
      [] c = "y" -> "Y" [] c = "z" -> "Z" [] OTHER -> c

to_uppercase(text) == [i \in 1..Len(text) |-> UpperChar(text[i])]

\* EnvChar: Separator, or Unicode(c) which is the character c itself
Separator == "SEP"

\* EnvChar::try_get_unicode_non_whitespace: None for the separator and the
\* character for every Unicode(c), a whitespace character included
try_get_unicode_non_whitespace(env_char) ==
    IF env_char = Separator THEN None ELSE Some(env_char)

(***************************************************************************)
(* RegexOrText                                                             *)
(***************************************************************************)
\* regex::Regex of a pattern without metacharacters: a pattern is the text
\* it is written as, and it matches the values in which the text occurs
Regex_new(pattern, case_insensitive) ==
    [pattern |-> pattern, case_insensitive |-> case_insensitive]

Occurs(pattern, value) ==
    \E i \in 0..(Len(value) - Len(pattern)) : SubSeq(value, i + 1, i + Len(pattern)) = pattern

Regex_is_match(regex, value) ==
    IF regex.case_insensitive
    THEN Occurs(to_uppercase(regex.pattern), to_uppercase(value))
    ELSE Occurs(regex.pattern, value)

\* RegexOrText::default
RegexOrText_default ==
    [text |-> <<>>, override_case_sensitive |-> None, is_regex |-> FALSE,
     uppercase_text |-> None, regex |-> None, case_insensitive_regex |-> None]

\* RegexOrText::update: both regexes are built from self.text
update(rot) ==
    IF rot.is_regex
    THEN [rot EXCEPT !.uppercase_text = None,
                     !.regex = Some(Regex_new(rot.text, FALSE)),
                     !.case_insensitive_regex = Some(Regex_new(rot.text, TRUE))]
    ELSE [rot EXCEPT !.regex = None,
                     !.case_insensitive_regex = None,
                     !.uppercase_text = Some(to_uppercase(rot.text))]

with_text(text) == update([RegexOrText_default EXCEPT !.text = text, !.is_regex = FALSE])

with_regex(regex) == update([RegexOrText_default EXCEPT !.regex = Some(regex), !.is_regex = TRUE])

\* RegexOrText::is_match
is_match(rot, value, case_sensitive_arg) ==
    LET case_sensitive == IF rot.override_case_sensitive # None
                          THEN rot.override_case_sensitive[1]
                          ELSE case_sensitive_arg
    IN  IF rot.is_regex
        THEN Regex_is_match(IF case_sensitive THEN rot.regex[1]
                            ELSE rot.case_insensitive_regex[1], value)
        ELSE IF case_sensitive
             THEN value = rot.text
             ELSE to_uppercase(value) = rot.uppercase_text[1]

(***************************************************************************)
(* Matcher                                                                 *)
(***************************************************************************)
OptionHasValue == {"Always", "IfPossible", "Never"}

DEFAULT_OPTION_HAS_VALUE == "Never"

\* Matcher::default with the name set: Matcher::new
Matcher_new(name) ==
    [index |-> 0, name |-> name,
     arg_indices |-> None, arg_type |-> None, option_indices |-> None,
     option_codes |-> None, option_has_value |-> DEFAULT_OPTION_HAS_VALUE,
     option_value_can_start_with_option_announcer |-> FALSE,
     param_indices |-> None, value_text |-> None]

Matcher_new_option(name) == [Matcher_new(name) EXCEPT !.arg_type = Some("Option")]

Matcher_new_param(name) == [Matcher_new(name) EXCEPT !.arg_type = Some("Param")]

\* Parser::push_matcher: the matcher gets its position as index
push_matcher(matchers, matcher) ==
    Append(matchers, [matcher EXCEPT !.index = Len(matchers)])

RECURSIVE push_all(_, _)
push_all(matchers, new) ==
    IF new = <<>> THEN matchers
    ELSE push_all(push_matcher(matchers, Head(new)), Tail(new))

(***************************************************************************)
(* Parser properties                                                       *)
(***************************************************************************)
\* Parser::new: the line defaults, no matchers, any_matcher = Matcher::new("")
Parser_new ==
    [quote_chars |-> {Quote},
     option_announcer_chars |-> {Dash},
     option_codes_case_sensitive |-> FALSE,
     option_code_can_be_empty |-> FALSE,
     multi_char_option_code_requires_double_announcer |-> FALSE,
     option_value_announcer_chars |-> {Space},
     option_values_case_sensitive |-> FALSE,
     params_case_sensitive |-> FALSE,
     embed_quote_char_with_double |-> TRUE,
     escape_char |-> None,
     escapeable_logical_chars |-> {"Escape", "Quote"},
     escapeable_chars |-> {},
     parse_terminate_chars |-> {},
     first_arg_is_binary |-> TRUE,
     matchers |-> <<>>,
     any_matcher |-> Matcher_new(<<>>)]

\* Parser::set_env_args_defaults
set_env_args_defaults(p) ==
    [p EXCEPT !.quote_chars = {},
              !.option_announcer_chars = {Dash},
              !.option_codes_case_sensitive = FALSE,
              !.option_code_can_be_empty = FALSE,
              !.multi_char_option_code_requires_double_announcer = FALSE,
              !.option_value_announcer_chars = {Space},
              !.option_values_case_sensitive = FALSE,
              !.params_case_sensitive = FALSE,
              !.embed_quote_char_with_double = FALSE,
              !.escape_char = None,
              !.escapeable_logical_chars = {"Escape", "Quote"},
              !.escapeable_chars = {},
              !.parse_terminate_chars = {},
              !.first_arg_is_binary = TRUE]

(***************************************************************************)
(* ParseState                                                              *)
(***************************************************************************)
NoChar == "\\0"

ParseState_new(line_or_env_arg, first_arg_is_binary, multi) ==
    [multi_char_option_code_requires_double_announcer |-> multi,
     line_or_env_arg |-> line_or_env_arg,
     line_len |-> Len(line_or_env_arg),
     arg_parse_state |-> IF first_arg_is_binary THEN "WaitBinary" ELSE "WaitOptionOrParam",
     option_parse_state |-> "InCode",
     env_line_approximate_char_idx |-> 0,
     env_arg_idx |-> 0,
     line_or_env_arg_char_idx |-> 0,
     arg_start_char_idx |-> 0,
     arg_start_env_line_approximate_char_idx |-> 0,
     option_code_start_line_char_idx |-> 0,
     arg_quote_char |-> NoChar,
     option_announcer_char |-> NoChar,
     option_code |-> <<>>,
     option_value_announcer_is_ambiguous |-> FALSE,
     current_option_value_may_be_param |-> FALSE,
     value_quoted |-> FALSE,
     value_bldr |-> <<>>,
     arg_count |-> 0,
     option_count |-> 0,
     param_count |-> 0,
     current_param_is_binary |-> FALSE]

\* ParseError::new_option
ParseError_new_option(type_id, line_char_idx, arg_idx, option_idx, option_code, param_value_text) ==
    [type_id |-> type_id, line_char_index |-> line_char_idx, arg_index |-> arg_idx,
     option_index |-> Some(option_idx), option_code |-> Some(option_code),
     param_index |-> None, param_value_text |-> param_value_text]

\* ParseError::new_param
ParseError_new_param(type_id, line_char_idx, arg_idx, param_idx, param_value_text) ==
    [type_id |-> type_id, line_char_index |-> line_char_idx, arg_index |-> arg_idx,
     option_index |-> None, option_code |-> None,
     param_index |-> Some(param_idx), param_value_text |-> param_value_text]

\* A variant that reports the index at which the argument started
create_option_error_at_arg_start(ps, error_id) ==
    ParseError_new_option(error_id, ps.arg_start_env_line_approximate_char_idx,
        ps.arg_count, ps.option_count, ps.option_code, ps.value_bldr)

create_option_error(ps, error_id) ==
    ParseError_new_option(error_id, ps.env_line_approximate_char_idx,
        ps.arg_count, ps.option_count, ps.option_code, ps.value_bldr)

create_param_error(ps, error_id) ==
    ParseError_new_param(error_id, ps.env_line_approximate_char_idx,
        ps.arg_count, ps.option_count, ps.value_bldr)

(***************************************************************************)
(* ParseState::set_option_code.  A running parse is a record               *)
(*   [ps: the ParseState, args: the Args, err: None or Some(ParseError),   *)
(*    panic: the call aborted, more: process_char's Ok(bool)]              *)
(* and every fallible function maps such a record to the next one; a       *)
(* failed record is passed on unchanged, as the ? operator does.           *)
(***************************************************************************)
Running(ps, as) == [ps |-> ps, args |-> as, err |-> None, panic |-> FALSE, more |-> TRUE]

Failed(m) == m.err # None \/ m.panic

Err(m, error) == [m EXCEPT !.err = Some(error)]

Panic(m) == [m EXCEPT !.panic = TRUE]

set_option_code(m, optional_ending_index) ==
    LET ps == m.ps
        ending_index == IF optional_ending_index = None THEN ps.line_len
                        ELSE optional_ending_index[1]
        start == ps.option_code_start_line_char_idx
    IN  IF start > ending_index \/ ending_index > Len(ps.line_or_env_arg)
        THEN Panic(m)   \* a slice out of range panics
        ELSE
        LET raw_option_code == SubSeq(ps.line_or_env_arg, start + 1, ending_index)
            with_raw == [m EXCEPT !.ps.option_code = raw_option_code]
            with_empty == [m EXCEPT !.ps.option_code = <<>>]
        IN  IF raw_option_code = <<>> THEN with_empty
            ELSE IF ~ps.multi_char_option_code_requires_double_announcer THEN with_raw
            ELSE
            LET first_char_is_announcer == raw_option_code[1] = ps.option_announcer_char
                announcer_is_one_char_only == Len(raw_option_code) >= 2
            IN  IF announcer_is_one_char_only
                THEN IF first_char_is_announcer THEN with_empty ELSE with_raw
                ELSE IF first_char_is_announcer THEN with_raw
                     ELSE Err(with_raw, create_option_error(with_raw.ps, "OptionCodeMissingDoubleAnnouncer"))

(***************************************************************************)
(* Matching (parser.rs)                                                    *)
(***************************************************************************)
try_match_index(index, matcher_indices) ==
    IF matcher_indices # None THEN index \in matcher_indices[1] ELSE TRUE

try_match_arg_type(value, matcher_value) ==
    IF matcher_value # None THEN matcher_value[1] = value ELSE TRUE

try_match_option_code(p, code, matcher_codes) ==
    IF matcher_codes # None
    THEN \E i \in 1..Len(matcher_codes[1]) :
            is_match(matcher_codes[1][i], code, p.option_codes_case_sensitive)
    ELSE TRUE

try_match_value_text(value_text, matcher_value_text, case_sensitive) ==
    IF matcher_value_text # None
    THEN is_match(matcher_value_text[1], value_text, case_sensitive)
    ELSE TRUE

try_match_option_excluding_value(p, ps, matcher) ==
    /\ try_match_index(ps.arg_count, matcher.arg_indices)
    /\ try_match_arg_type("Option", matcher.arg_type)
    /\ try_match_index(ps.option_count, matcher.option_indices)
    /\ try_match_option_code(p, ps.option_code, matcher.option_codes)

try_match_param(p, ps, matcher) ==
    /\ try_match_index(ps.arg_count, matcher.arg_indices)
    /\ try_match_arg_type("Param", matcher.arg_type)
    /\ try_match_index(ps.param_count, matcher.param_indices)
    /\ try_match_value_text(ps.value_bldr, matcher.value_text, p.params_case_sensitive)

\* A variant whose Always matchers accept an option that has no value
try_match_option_always_without_value(p, ps, has_value, matcher) ==
    IF try_match_option_excluding_value(p, ps, matcher)
    THEN CASE matcher.option_has_value \in {"Always", "IfPossible"} ->
                IF has_value
                THEN try_match_value_text(ps.value_bldr, matcher.value_text, p.option_codes_case_sensitive)
                ELSE TRUE
           [] matcher.option_has_value = "Never" -> ~has_value
    ELSE FALSE

try_match_option(p, ps, has_value, matcher) ==
    IF try_match_option_excluding_value(p, ps, matcher)
    THEN CASE matcher.option_has_value = "Always" ->
                IF has_value
                THEN try_match_value_text(ps.value_bldr, matcher.value_text, p.option_codes_case_sensitive)
                ELSE FALSE
           [] matcher.option_has_value = "IfPossible" ->
                IF has_value
                THEN try_match_value_text(ps.value_bldr, matcher.value_text, p.option_codes_case_sensitive)
                ELSE TRUE
           [] matcher.option_has_value = "Never" -> ~has_value
    ELSE FALSE

\* A reference to a matcher: 0 is the parser's any_matcher, k >= 1 is
\* matchers[k], the matcher whose index() is k - 1.
AnyMatcherRef == 0

MatcherOf(p, ref) == IF ref = AnyMatcherRef THEN p.any_matcher ELSE p.matchers[ref]

\* Mutant: the last accepted matcher instead of the first
LastAccepted(accepted) ==
    IF accepted = {} THEN None
    ELSE Some(CHOOSE i \in accepted : \A j \in accepted : i >= j)

\* matchers.iter().find(...): the first position whose matcher is accepted
FirstAccepted(accepted) ==
    IF accepted = {} THEN None
    ELSE Some(CHOOSE i \in accepted : \A j \in accepted : i <= j)

try_find_option_matcher(p, ps, has_value) ==
    IF p.matchers = <<>> THEN Some(AnyMatcherRef)
    ELSE FirstAccepted({i \in 1..Len(p.matchers) : try_match_option(p, ps, has_value, p.matchers[i])})

try_find_param_matcher(p, ps) ==
    IF p.matchers = <<>> THEN Some(AnyMatcherRef)
    ELSE FirstAccepted({i \in 1..Len(p.matchers) : try_match_param(p, ps, p.matchers[i])})

(***************************************************************************)
(* Emitting arguments                                                      *)
(***************************************************************************)
\* A variant that numbers the options with the argument counter
add_option_arg_option_index_of_arg(m, has_value, matcher) ==
    LET ps == m.ps
        arg == [kind |-> "Option", matcher |-> matcher,
                char_index |-> ps.arg_start_char_idx,
                env_line_approximate_char_index |-> ps.arg_start_env_line_approximate_char_idx,
                arg_index |-> ps.arg_count,
                env_arg_index |-> ps.env_arg_idx,
                option_index |-> Some(ps.arg_count),
                param_index |-> None,
                code |-> Some(ps.option_code),
                value_text |-> IF has_value THEN Some(ps.value_bldr) ELSE None]
    IN  [m EXCEPT !.args = Append(@, arg),
                  !.ps.arg_count = @ + 1,
                  !.ps.option_count = @ + 1]

add_option_arg(m, has_value, matcher) ==
    LET ps == m.ps
        arg == [kind |-> "Option", matcher |-> matcher,
                char_index |-> ps.arg_start_char_idx,
                env_line_approximate_char_index |-> ps.arg_start_env_line_approximate_char_idx,
                arg_index |-> ps.arg_count,
                env_arg_index |-> ps.env_arg_idx,
                option_index |-> Some(ps.option_count),
                param_index |-> None,
                code |-> Some(ps.option_code),
                value_text |-> IF has_value THEN Some(ps.value_bldr) ELSE None]
    IN  [m EXCEPT !.args = Append(@, arg),
                  !.ps.arg_count = @ + 1,
                  !.ps.option_count = @ + 1]

add_param_arg(m, matcher) ==
    LET ps == m.ps
        arg == [kind |-> "Param", matcher |-> matcher,
                char_index |-> ps.arg_start_char_idx,
                env_line_approximate_char_index |-> ps.arg_start_env_line_approximate_char_idx,
                arg_index |-> ps.arg_count,
                env_arg_index |-> ps.env_arg_idx,
                option_index |-> None,
                param_index |-> Some(ps.param_count),
                code |-> None,
                value_text |-> Some(ps.value_bldr)]
    IN  [m EXCEPT !.args = Append(@, arg),
                  !.ps.arg_count = @ + 1,
                  !.ps.param_count = @ + 1]

add_binary_arg(m, matcher) ==
    LET ps == m.ps
        arg == [kind |-> "Binary", matcher |-> matcher,
                char_index |-> ps.arg_start_char_idx,
                env_line_approximate_char_index |-> ps.arg_start_env_line_approximate_char_idx,
                arg_index |-> ps.arg_count,
                env_arg_index |-> ps.env_arg_idx,
                option_index |-> None,
                param_index |-> None,
                code |-> None,
                value_text |-> Some(ps.value_bldr)]
    IN  [m EXCEPT !.args = Append(@, arg),
                  !.ps.arg_count = @ + 1]

match_binary_arg(m) == add_binary_arg(m, AnyMatcherRef)

\* Mutant: the binary goes through the matchers like any param
match_param_arg_binary_matched(p, m) ==
    LET optioned_matcher == try_find_param_matcher(p, m.ps)
    IN  IF optioned_matcher # None
        THEN add_param_arg(m, optioned_matcher[1])
        ELSE Err(m, create_param_error(m.ps, "UnmatchedParam"))

match_param_arg(p, m) ==
    IF m.ps.current_param_is_binary
    THEN match_binary_arg(m)
    ELSE LET optioned_matcher == try_find_param_matcher(p, m.ps)
         IN  IF optioned_matcher # None
             THEN add_param_arg(m, optioned_matcher[1])
             ELSE Err(m, create_param_error(m.ps, "UnmatchedParam"))

match_option_arg(p, m, has_value) ==
    LET optioned_matcher == try_find_option_matcher(p, m.ps, has_value)
    IN  IF optioned_matcher # None
        THEN add_option_arg(m, has_value, optioned_matcher[1])
        ELSE IF has_value /\ m.ps.current_option_value_may_be_param
             THEN LET retried == try_find_option_matcher(p, m.ps, FALSE)
                  IN  IF retried # None
                      THEN match_param_arg(p, add_option_arg(m, FALSE, retried[1]))
                      ELSE Err(m, create_option_error(m.ps, "UnmatchedOption"))
             ELSE Err(m, create_option_error(m.ps, "UnmatchedOption"))

(***************************************************************************)
(* Can the option have a value?                                            *)
(***************************************************************************)
\* Mutant: no matcher lets an option code have a value
no_option_code_has_value(p, ps, matcher) == FALSE

can_option_code_have_value_with_matcher(p, ps, matcher) ==
    IF try_match_option_excluding_value(p, ps, matcher)
    THEN matcher.option_has_value # "Never"
    ELSE FALSE

can_option_code_have_value(p, ps) ==
    IF p.matchers = <<>>
    THEN can_option_code_have_value_with_matcher(p, ps, p.any_matcher)
    ELSE \E i \in 1..Len(p.matchers) :
            can_option_code_have_value_with_matcher(p, ps, p.matchers[i])

\* The Result<OptionHasValueBasedOnFirstChar, ParseError> of the two functions
\* below: [verdict, err: None or Some(ParseError), panic: unreachable!() was hit]
Verdict(v) == [verdict |-> v, err |-> None, panic |-> FALSE]

VerdictErr(error) == [verdict |-> "MustNot", err |-> Some(error), panic |-> FALSE]

VerdictPanic == [verdict |-> "MustNot", err |-> None, panic |-> TRUE]

can_option_have_value_with_first_char_with_matcher(p, ps, first_char_of_value_is_option_announcer, matcher) ==
    IF try_match_option_excluding_value(p, ps, matcher)
    THEN CASE matcher.option_has_value = "Always" ->
                IF matcher.option_value_can_start_with_option_announcer
                THEN Verdict("Must")
                ELSE IF first_char_of_value_is_option_announcer
                     THEN VerdictErr(create_option_error(ps, "OptionValueCannotStartWithOptionAnnouncer"))
                     ELSE Verdict("Must")
           [] matcher.option_has_value = "IfPossible" ->
                IF ps.option_value_announcer_is_ambiguous
                THEN IF first_char_of_value_is_option_announcer
                     THEN Verdict("MustNot")
                     ELSE Verdict("Possibly")
                ELSE IF first_char_of_value_is_option_announcer
                     THEN VerdictErr(create_option_error(ps, "OptionValueCannotStartWithOptionAnnouncer"))
                     ELSE Verdict("Must")
           [] matcher.option_has_value = "Never" -> VerdictPanic
    ELSE Verdict("MustNot")

\* The loop over the matchers from position i on, has_value being the verdict
\* so far: an error or a panic ends it, and so does the first Must.
RECURSIVE first_char_loop(_, _, _, _, _)
first_char_loop(p, ps, first_char_of_value_is_option_announcer, i, has_value) ==
    IF i > Len(p.matchers) THEN Verdict(has_value)
    ELSE LET matched_has_value ==
                can_option_have_value_with_first_char_with_matcher(
                    p, ps, first_char_of_value_is_option_announcer, p.matchers[i])
         IN  IF matched_has_value.err # None \/ matched_has_value.panic
             THEN matched_has_value
             ELSE IF matched_has_value.verdict = "Must" THEN Verdict("Must")
             ELSE first_char_loop(p, ps, first_char_of_value_is_option_announcer, i + 1,
                    IF matched_has_value.verdict = "Possibly" THEN "Possibly" ELSE has_value)

can_option_have_value_with_first_char(p, ps, first_char_of_value_is_option_announcer) ==
    IF p.matchers = <<>>
    THEN can_option_have_value_with_first_char_with_matcher(
            p, ps, first_char_of_value_is_option_announcer, p.any_matcher)
    ELSE first_char_loop(p, ps, first_char_of_value_is_option_announcer, 1, "MustNot")

(***************************************************************************)
(* Starting an argument                                                    *)
(***************************************************************************)
can_char_be_escaped(p, ps, unicode_char) ==
    \/ "Escape" \in p.escapeable_logical_chars /\ p.escape_char = Some(unicode_char)
    \/ "Quote" \in p.escapeable_logical_chars /\ ps.value_quoted /\ unicode_char = ps.arg_quote_char
    \/ "Whitespace" \in p.escapeable_logical_chars /\ IsWhitespace(unicode_char)
    \/ "OptionAnnouncer" \in p.escapeable_logical_chars /\ unicode_char \in p.option_announcer_chars
    \/ "OptionValueAnnouncer" \in p.escapeable_logical_chars /\ unicode_char \in p.option_value_announcer_chars
    \/ "All" \in p.escapeable_logical_chars
    \/ unicode_char \in p.escapeable_chars

\* Mutant: the option code starts at the announcer, not after it
initialise_option_parsing_code_at_announcer(ps, unicode_char) ==
    [ps EXCEPT !.option_parse_state = "InCode",
               !.option_announcer_char = unicode_char,
               !.arg_start_char_idx = ps.line_or_env_arg_char_idx,
               !.arg_start_env_line_approximate_char_idx = ps.env_line_approximate_char_idx,
               !.option_code_start_line_char_idx = ps.line_or_env_arg_char_idx]

initialise_option_parsing(ps, unicode_char) ==
    [ps EXCEPT !.option_parse_state = "InCode",
               !.option_announcer_char = unicode_char,
               !.arg_start_char_idx = ps.line_or_env_arg_char_idx,
               !.arg_start_env_line_approximate_char_idx = ps.env_line_approximate_char_idx,
               !.option_code_start_line_char_idx = ps.line_or_env_arg_char_idx + 1]

\* A variant that records the first character of the value, after an
\* opening quote, as the start of the argument
initialise_param_parsing_after_quote(p, ps, unicode_char, is_binary) ==
    LET quoted == unicode_char \in p.quote_chars
        start == IF quoted THEN 1 ELSE 0
    IN  [ps EXCEPT !.value_bldr = IF quoted THEN <<>> ELSE <<unicode_char>>,
                   !.arg_start_char_idx = ps.line_or_env_arg_char_idx + start,
                   !.arg_start_env_line_approximate_char_idx =
                        ps.env_line_approximate_char_idx + start,
                   !.value_quoted = quoted,
                   !.arg_quote_char = IF quoted THEN unicode_char ELSE @,
                   !.current_param_is_binary = is_binary]

initialise_param_parsing(p, ps, unicode_char, is_binary) ==
    LET quoted == unicode_char \in p.quote_chars
    IN  [ps EXCEPT !.value_bldr = IF quoted THEN <<>> ELSE <<unicode_char>>,
                   !.arg_start_char_idx = ps.line_or_env_arg_char_idx,
                   !.arg_start_env_line_approximate_char_idx = ps.env_line_approximate_char_idx,
                   !.value_quoted = quoted,
                   !.arg_quote_char = IF quoted THEN unicode_char ELSE @,
                   !.current_param_is_binary = is_binary]

initialise_option_value_parsing(p, ps, unicode_char) ==
    LET quoted == unicode_char \in p.quote_chars
    IN  [ps EXCEPT !.value_bldr = IF quoted THEN <<>> ELSE <<unicode_char>>,
                   !.value_quoted = quoted,
                   !.arg_quote_char = IF quoted THEN unicode_char ELSE @]

(***************************************************************************)
(* finalise_option_code                                                    *)
(***************************************************************************)
\* match_option_arg(parse_state, false, args)?; arg_parse_state = WaitOptionOrParam
OptionWithoutValue(p, m) ==
    LET matched == match_option_arg(p, [m EXCEPT !.ps.current_option_value_may_be_param = FALSE], FALSE)
    IN  IF Failed(matched) THEN matched
        ELSE [matched EXCEPT !.ps.arg_parse_state = "WaitOptionOrParam"]

finalise_option_code(p, m, value_announced) ==
    LET coded == set_option_code(m, Some(m.ps.line_or_env_arg_char_idx))
    IN  IF Failed(coded) THEN coded
        ELSE CASE value_announced = "Definitely" ->
                    IF can_option_code_have_value(p, coded.ps)
                    THEN [coded EXCEPT !.ps.option_parse_state = "WaitOptionValue"]
                    ELSE Err(coded, create_option_error(coded.ps, "NoMatchForOptionWithValue"))
               [] value_announced = "Ambiguous" ->
                    IF can_option_code_have_value(p, coded.ps)
                    THEN [coded EXCEPT !.ps.option_parse_state = "WaitOptionValue"]
                    ELSE OptionWithoutValue(p, coded)
               [] value_announced = "Not" -> OptionWithoutValue(p, coded)

(***************************************************************************)
(* process_char, one operator per arm of its match on the parse state.     *)
(* Each returns the running parse with more = the Ok(bool) of the source.  *)
(***************************************************************************)
More(m, more) == IF Failed(m) THEN m ELSE [m EXCEPT !.more = more]

\* ...?; parse_state.arg_parse_state = state
ThenArgState(m, state) == IF Failed(m) THEN m ELSE [m EXCEPT !.ps.arg_parse_state = state]

process_char_WaitBinary(p, m, env_char) ==
    LET got == try_get_unicode_non_whitespace(env_char)
    IN  IF got # None
        THEN IF got[1] \in p.parse_terminate_chars
             THEN More(m, FALSE)
             ELSE More([m EXCEPT !.ps = [initialise_param_parsing(p, m.ps, got[1], TRUE)
                                            EXCEPT !.arg_parse_state = "InParam"]], TRUE)
        ELSE More(m, TRUE)

process_char_WaitOptionOrParam(p, m, env_char) ==
    LET got == try_get_unicode_non_whitespace(env_char)
    IN  IF got # None
        THEN IF got[1] \in p.parse_terminate_chars
             THEN More(m, FALSE)
             ELSE IF got[1] \in p.option_announcer_chars
                  THEN More([m EXCEPT !.ps = initialise_option_parsing(
                                [m.ps EXCEPT !.arg_parse_state = "InOption"], got[1])], TRUE)
                  ELSE More([m EXCEPT !.ps = initialise_param_parsing(
                                p, [m.ps EXCEPT !.arg_parse_state = "InParam"], got[1], FALSE)], TRUE)
        ELSE More(m, TRUE)

\* A variant in which a quote character inside an unquoted param is left
\* out of the value
process_char_InParam_drops_quote(p, m, env_char) ==
    IF env_char = Separator
    THEN IF m.ps.value_quoted
         THEN Err(m, create_param_error(m.ps, "ParamMissingClosingQuoteCharacter"))
         ELSE More(ThenArgState(match_param_arg(p, m), "WaitOptionOrParam"), TRUE)
    ELSE IF p.escape_char = Some(env_char)
         THEN More([m EXCEPT !.ps.arg_parse_state = "InParamEscaped"], TRUE)
         ELSE IF m.ps.value_quoted
              THEN IF env_char = m.ps.arg_quote_char
                   THEN More([m EXCEPT !.ps.arg_parse_state = "InParamPossibleEndQuote"], TRUE)
                   ELSE More([m EXCEPT !.ps.value_bldr = Append(@, env_char)], TRUE)
              ELSE IF env_char \in p.quote_chars
                   THEN More(m, TRUE)
                   ELSE IF ~IsWhitespace(env_char)
                   THEN More([m EXCEPT !.ps.value_bldr = Append(@, env_char)], TRUE)
                   ELSE More(ThenArgState(match_param_arg(p, m), "WaitOptionOrParam"), TRUE)

process_char_InParam(p, m, env_char) ==
    IF env_char = Separator
    THEN IF m.ps.value_quoted
         THEN Err(m, create_param_error(m.ps, "ParamMissingClosingQuoteCharacter"))
         ELSE More(ThenArgState(match_param_arg(p, m), "WaitOptionOrParam"), TRUE)
    ELSE IF p.escape_char = Some(env_char)
         THEN More([m EXCEPT !.ps.arg_parse_state = "InParamEscaped"], TRUE)
         ELSE IF m.ps.value_quoted
              THEN IF env_char = m.ps.arg_quote_char
                   THEN More([m EXCEPT !.ps.arg_parse_state = "InParamPossibleEndQuote"], TRUE)
                   ELSE More([m EXCEPT !.ps.value_bldr = Append(@, env_char)], TRUE)
              ELSE IF ~IsWhitespace(env_char)
                   THEN More([m EXCEPT !.ps.value_bldr = Append(@, env_char)], TRUE)
                   ELSE More(ThenArgState(match_param_arg(p, m), "WaitOptionOrParam"), TRUE)

\* Mutant: a doubled quote character stays doubled in the value
process_char_InParamPossibleEndQuote_keeps_both(p, m, env_char) ==
    IF env_char = Separator
    THEN More(ThenArgState(match_param_arg(p, m), "WaitOptionOrParam"), TRUE)
    ELSE IF env_char = m.ps.arg_quote_char /\ p.embed_quote_char_with_double
         THEN More([m EXCEPT !.ps.value_bldr = Append(Append(@, env_char), env_char),
                             !.ps.arg_parse_state = "InParam"], TRUE)
         ELSE IF IsWhitespace(env_char)
              THEN More(ThenArgState(match_param_arg(p, m), "WaitOptionOrParam"), TRUE)
              ELSE Err(m, create_param_error(m.ps, "QuotedParamNotFollowedByWhitespaceChar"))

process_char_InParamPossibleEndQuote(p, m, env_char) ==
    IF env_char = Separator
    THEN More(ThenArgState(match_param_arg(p, m), "WaitOptionOrParam"), TRUE)
    ELSE IF env_char = m.ps.arg_quote_char /\ p.embed_quote_char_with_double
         THEN More([m EXCEPT !.ps.value_bldr = Append(@, env_char),
                             !.ps.arg_parse_state = "InParam"], TRUE)
         ELSE IF IsWhitespace(env_char)
              THEN More(ThenArgState(match_param_arg(p, m), "WaitOptionOrParam"), TRUE)
              ELSE Err(m, create_param_error(m.ps, "QuotedParamNotFollowedByWhitespaceChar"))

\* A variant that keeps the escape character in the value
process_char_InParamEscaped_keeps_escape(p, m, env_char) ==
    IF env_char = Separator
    THEN Err(m, create_param_error(m.ps, "EscapeCharacterAtEndOfParam"))
    ELSE IF can_char_be_escaped(p, m.ps, env_char)
         THEN More([m EXCEPT !.ps.value_bldr = Append(Append(@, p.escape_char[1]), env_char),
                             !.ps.arg_parse_state = "InParam"], TRUE)
         ELSE Err(m, create_param_error(m.ps, "EscapedCharacterInParamCannotBeEscaped"))

process_char_InParamEscaped(p, m, env_char) ==
    IF env_char = Separator
    THEN Err(m, create_param_error(m.ps, "EscapeCharacterAtEndOfParam"))
    ELSE IF can_char_be_escaped(p, m.ps, env_char)
         THEN More([m EXCEPT !.ps.value_bldr = Append(@, env_char),
                             !.ps.arg_parse_state = "InParam"], TRUE)
         ELSE Err(m, create_param_error(m.ps, "EscapedCharacterInParamCannotBeEscaped"))

process_char_InCode(p, m, env_char) ==
    IF env_char = Separator
    THEN More(finalise_option_code(p, m, "Ambiguous"), TRUE)
    ELSE IF env_char \in p.parse_terminate_chars
         THEN More(finalise_option_code(p, m, "Not"), FALSE)
         ELSE IF env_char \in p.option_value_announcer_chars
              THEN More(finalise_option_code(p, m,
                        IF IsWhitespace(env_char) THEN "Ambiguous" ELSE "Definitely"), TRUE)
              ELSE IF env_char \in p.quote_chars
                   THEN Err(m, create_option_error(m.ps, "OptionCodeCannotContainQuoteChar"))
                   ELSE IF p.escape_char = Some(env_char)
                        THEN Err(m, create_option_error(m.ps, "OptionCodeCannotContainEscapeChar"))
                        ELSE More(m, TRUE)

process_char_WaitOptionValue(p, m, env_char) ==
    LET got == try_get_unicode_non_whitespace(env_char)
    IN  IF got = None THEN More(m, TRUE)
        ELSE
        LET first_char_of_value_is_option_announcer == got[1] \in p.option_value_announcer_chars
            has_value == can_option_have_value_with_first_char(p, m.ps, first_char_of_value_is_option_announcer)
            valued(may_be_param) ==
                [m EXCEPT !.ps = [initialise_option_value_parsing(
                                    p, [m.ps EXCEPT !.option_parse_state = "InValue"], got[1])
                                  EXCEPT !.current_option_value_may_be_param = may_be_param]]
        IN  IF has_value.panic THEN Panic(m)
            ELSE IF has_value.err # None THEN Err(m, has_value.err[1])
            ELSE CASE has_value.verdict = "Must" -> More(valued(FALSE), TRUE)
                   [] has_value.verdict = "Possibly" -> More(valued(TRUE), TRUE)
                   [] has_value.verdict = "MustNot" ->
                        LET emitted == OptionWithoutValue(p, m)
                        IN  IF Failed(emitted) THEN emitted
                            \* process_char again, now in WaitOptionOrParam
                            ELSE process_char_WaitOptionOrParam(p, emitted, env_char)

\* A variant in which a quote character inside an unquoted option value is
\* left out of the value
process_char_InValue_drops_quote(p, m, env_char) ==
    IF env_char = Separator
    THEN IF m.ps.value_quoted
         THEN Err(m, create_option_error(m.ps, "OptionValueMissingClosingQuoteCharacter"))
         ELSE More(ThenArgState(match_option_arg(p, m, TRUE), "WaitOptionOrParam"), TRUE)
    ELSE IF p.escape_char = Some(env_char)
         THEN More([m EXCEPT !.ps.option_parse_state = "InValueEscaped"], TRUE)
         ELSE IF m.ps.value_quoted
              THEN IF env_char = m.ps.arg_quote_char
                   THEN More([m EXCEPT !.ps.option_parse_state = "InValuePossibleEndQuote"], TRUE)
                   ELSE More([m EXCEPT !.ps.value_bldr = Append(@, env_char)], TRUE)
              ELSE IF env_char \in p.quote_chars
                   THEN More(m, TRUE)
                   ELSE IF ~IsWhitespace(env_char)
                   THEN More([m EXCEPT !.ps.value_bldr = Append(@, env_char)], TRUE)
                   ELSE More(ThenArgState(match_option_arg(p, m, TRUE), "WaitOptionOrParam"), TRUE)

process_char_InValue(p, m, env_char) ==
    IF env_char = Separator
    THEN IF m.ps.value_quoted
         THEN Err(m, create_option_error(m.ps, "OptionValueMissingClosingQuoteCharacter"))
         ELSE More(ThenArgState(match_option_arg(p, m, TRUE), "WaitOptionOrParam"), TRUE)
    ELSE IF p.escape_char = Some(env_char)
         THEN More([m EXCEPT !.ps.option_parse_state = "InValueEscaped"], TRUE)
         ELSE IF m.ps.value_quoted
              THEN IF env_char = m.ps.arg_quote_char
                   THEN More([m EXCEPT !.ps.option_parse_state = "InValuePossibleEndQuote"], TRUE)
                   ELSE More([m EXCEPT !.ps.value_bldr = Append(@, env_char)], TRUE)
              ELSE IF ~IsWhitespace(env_char)
                   THEN More([m EXCEPT !.ps.value_bldr = Append(@, env_char)], TRUE)
                   ELSE More(ThenArgState(match_option_arg(p, m, TRUE), "WaitOptionOrParam"), TRUE)

process_char_InValuePossibleEndQuote(p, m, env_char) ==
    IF env_char = Separator
    THEN More(ThenArgState(match_option_arg(p, m, TRUE), "WaitOptionOrParam"), TRUE)
    ELSE IF env_char = m.ps.arg_quote_char /\ p.embed_quote_char_with_double
         THEN More([m EXCEPT !.ps.value_bldr = Append(@, env_char),
                             !.ps.option_parse_state = "InValue"], TRUE)
         ELSE IF IsWhitespace(env_char)
              THEN More(ThenArgState(match_option_arg(p, m, TRUE), "WaitOptionOrParam"), TRUE)
              ELSE Err(m, create_option_error(m.ps, "QuotedOptionValueNotFollowedByWhitespaceChar"))

process_char_InValueEscaped(p, m, env_char) ==
    IF env_char = Separator
    THEN Err(m, create_option_error(m.ps, "EscapeCharacterAtEndOfOptionValue"))
    ELSE IF can_char_be_escaped(p, m.ps, env_char)
         THEN More([m EXCEPT !.ps.value_bldr = Append(@, env_char),
                             !.ps.option_parse_state = "InValue"], TRUE)
         ELSE Err(m, create_option_error(m.ps, "EscapedCharacterInOptionValueCannotBeEscaped"))

process_char(p, m, env_char) ==
    CASE m.ps.arg_parse_state = "WaitBinary" -> process_char_WaitBinary(p, m, env_char)
      [] m.ps.arg_parse_state = "WaitOptionOrParam" -> process_char_WaitOptionOrParam(p, m, env_char)
      [] m.ps.arg_parse_state = "InParam" -> process_char_InParam(p, m, env_char)
      [] m.ps.arg_parse_state = "InParamPossibleEndQuote" -> process_char_InParamPossibleEndQuote(p, m, env_char)
      [] m.ps.arg_parse_state = "InParamEscaped" -> process_char_InParamEscaped(p, m, env_char)
      [] m.ps.arg_parse_state = "InOption" ->
            CASE m.ps.option_parse_state = "InCode" -> process_char_InCode(p, m, env_char)
              [] m.ps.option_parse_state = "WaitOptionValue" -> process_char_WaitOptionValue(p, m, env_char)
              [] m.ps.option_parse_state = "InValue" -> process_char_InValue(p, m, env_char)
              [] m.ps.option_parse_state = "InValuePossibleEndQuote" -> process_char_InValuePossibleEndQuote(p, m, env_char)
              [] m.ps.option_parse_state = "InValueEscaped" -> process_char_InValueEscaped(p, m, env_char)

(***************************************************************************)
(* finalise_parse                                                          *)
(***************************************************************************)
\* A variant that takes a quotation left open at the end of the input as
\* closed
finalise_parse_accepts_open_quote(p, m) ==
    CASE m.ps.arg_parse_state = "WaitBinary" -> m
      [] m.ps.arg_parse_state = "WaitOptionOrParam" -> m
      [] m.ps.arg_parse_state = "InParam" ->
            match_param_arg(p, m)
      [] m.ps.arg_parse_state = "InParamPossibleEndQuote" -> match_param_arg(p, m)
      [] m.ps.arg_parse_state = "InParamEscaped" ->
            Err(m, create_param_error(m.ps, "EscapedCharacterInParamCannotBeEscaped"))
      [] m.ps.arg_parse_state = "InOption" ->
            CASE m.ps.option_parse_state = "InCode" ->
                    LET coded == set_option_code(m, None)
                    IN  IF Failed(coded) THEN coded
                        ELSE match_option_arg(p,
                                [coded EXCEPT !.ps.current_option_value_may_be_param = FALSE], FALSE)
              [] m.ps.option_parse_state = "WaitOptionValue" ->
                    LET has_value == can_option_have_value_with_first_char(p, m.ps, FALSE)
                    IN  IF has_value.panic THEN Panic(m)
                        ELSE IF has_value.err # None THEN Err(m, has_value.err[1])
                        ELSE IF has_value.verdict = "Must"
                             THEN Err(m, create_option_error(m.ps, "OptionMissingValue"))
                             ELSE match_option_arg(p,
                                    [m EXCEPT !.ps.current_option_value_may_be_param = FALSE], FALSE)
              [] m.ps.option_parse_state = "InValue" ->
                    match_option_arg(p, m, TRUE)
              [] m.ps.option_parse_state = "InValuePossibleEndQuote" -> match_option_arg(p, m, TRUE)
              [] m.ps.option_parse_state = "InValueEscaped" ->
                    Err(m, create_option_error(m.ps, "EscapeCharacterAtEndOfLine"))

finalise_parse(p, m) ==
    CASE m.ps.arg_parse_state = "WaitBinary" -> m
      [] m.ps.arg_parse_state = "WaitOptionOrParam" -> m
      [] m.ps.arg_parse_state = "InParam" ->
            IF m.ps.value_quoted
            THEN Err(m, create_param_error(m.ps, "ParamMissingClosingQuoteCharacter"))
            ELSE match_param_arg(p, m)
      [] m.ps.arg_parse_state = "InParamPossibleEndQuote" -> match_param_arg(p, m)
      [] m.ps.arg_parse_state = "InParamEscaped" ->
            Err(m, create_param_error(m.ps, "EscapedCharacterInParamCannotBeEscaped"))
      [] m.ps.arg_parse_state = "InOption" ->
            CASE m.ps.option_parse_state = "InCode" ->
                    LET coded == set_option_code(m, None)
                    IN  IF Failed(coded) THEN coded
                        ELSE match_option_arg(p,
                                [coded EXCEPT !.ps.current_option_value_may_be_param = FALSE], FALSE)
              [] m.ps.option_parse_state = "WaitOptionValue" ->
                    LET has_value == can_option_have_value_with_first_char(p, m.ps, FALSE)
                    IN  IF has_value.panic THEN Panic(m)
                        ELSE IF has_value.err # None THEN Err(m, has_value.err[1])
                        ELSE IF has_value.verdict = "Must"
                             THEN Err(m, create_option_error(m.ps, "OptionMissingValue"))
                             ELSE match_option_arg(p,
                                    [m EXCEPT !.ps.current_option_value_may_be_param = FALSE], FALSE)
              [] m.ps.option_parse_state = "InValue" ->
                    IF m.ps.value_quoted
                    THEN Err(m, create_option_error(m.ps, "OptionValueMissingClosingQuoteCharacter"))
                    ELSE match_option_arg(p, m, TRUE)
              [] m.ps.option_parse_state = "InValuePossibleEndQuote" -> match_option_arg(p, m, TRUE)
              [] m.ps.option_parse_state = "InValueEscaped" ->
                    Err(m, create_option_error(m.ps, "EscapeCharacterAtEndOfLine"))

(***************************************************************************)
(* parse_line and parse_env_args                                           *)
(***************************************************************************)
\* A variant that counts within the current environment argument only
env_line_approximate_char_idx_within_arg(ps) ==
    [ps EXCEPT !.env_line_approximate_char_idx = ps.line_or_env_arg_char_idx + 1]

increment_env_line_approximate_char_idx(ps) ==
    [ps EXCEPT !.env_line_approximate_char_idx = @ + 1]

increment_env_arg_char_idx(ps) ==
    [ps EXCEPT !.line_or_env_arg_char_idx = @ + 1]

\* Result<Args, ParseError>, and the abort of the call by a panic
NoResult == [tag |-> "None", args |-> <<>>, error |-> None]

OkResult(as) == [tag |-> "Ok", args |-> as, error |-> None]

ErrResult(error) == [tag |-> "Err", args |-> <<>>, error |-> Some(error)]

PanicResult == [tag |-> "Panic", args |-> <<>>, error |-> None]

\* Mutant: a failed call returns the arguments emitted so far
ReturnPartial(m) == OkResult(m.args)

\* What a failed call makes the parse function return: the ? operator
Propagate(m) == IF m.panic THEN PanicResult ELSE ErrResult(m.err[1])

\* self.finalise_parse(&mut parse_state, &mut args)?; Ok(args)
FinaliseResult(p, m) ==
    LET finalised == finalise_parse(p, m)
    IN  IF Failed(finalised) THEN Propagate(finalised) ELSE OkResult(finalised.args)

\* parse_line's loop from the i-th character (1-based) on, as a function
RECURSIVE parse_line_from(_, _, _, _)
parse_line_from(p, text, i, m) ==
    IF i > Len(text) THEN FinaliseResult(p, m)
    ELSE LET processed == process_char(p, m, text[i])
         IN  IF Failed(processed) THEN Propagate(processed)
             ELSE IF processed.more
                  THEN parse_line_from(p, text, i + 1,
                        [processed EXCEPT !.ps = increment_env_arg_char_idx(
                                                    increment_env_line_approximate_char_idx(@))])
                  ELSE FinaliseResult(p, processed)

parse_line(p, text) ==
    parse_line_from(p, text, 1,
        Running(ParseState_new(text, p.first_arg_is_binary,
                               p.multi_char_option_code_requires_double_announcer), <<>>))

\* The call returns: the parse state and the args are left as they were
\* when the failing call was made
Return(r) ==
    /\ pc' = "done"
    /\ result' = r
    /\ UNCHANGED <<parser, mode, input, arg_no, pos, parse_state, args>>

\* What parse_line's loop does with the outcome of process_char
LineCharProcessed(processed) ==
    IF Failed(processed) THEN Return(Propagate(processed))
    ELSE /\ args' = processed.args
         /\ IF processed.more
            THEN /\ parse_state' = increment_env_arg_char_idx(
                         increment_env_line_approximate_char_idx(processed.ps))
                 /\ pos' = pos + 1
                 /\ pc' = IF pos + 1 < Len(input[1]) THEN "chars" ELSE "finalise"
            ELSE /\ parse_state' = processed.ps
                 /\ pos' = pos
                 /\ pc' = "finalise"
         /\ UNCHANGED <<parser, mode, input, arg_no, result>>

\* One iteration of parse_line's loop over line.chars()
ProcessCharStep ==
    /\ mode = "line"
    /\ pc = "chars"
    /\ LineCharProcessed(process_char(parser, Running(parse_state, args), input[1][pos + 1]))

\* Where parse_env_args' outer loop goes once the text arg_no is exhausted
AfterEnvArg(no) == IF no + 1 < Len(input) THEN "arg" ELSE "finalise"

\* What parse_env_args' outer loop does once the separator is processed
EnvArgSeparated(separated) ==
    IF Failed(separated) THEN Return(Propagate(separated))
    ELSE /\ args' = separated.args
         /\ IF separated.more
            THEN /\ parse_state' =
                     [(IF arg_no > 0
                       THEN increment_env_line_approximate_char_idx(separated.ps)
                       ELSE separated.ps)
                      EXCEPT !.env_arg_idx = arg_no,
                             !.line_or_env_arg = input[arg_no + 1],
                             !.line_or_env_arg_char_idx = 0]
                 /\ IF input[arg_no + 1] = <<>>
                    THEN /\ pc' = AfterEnvArg(arg_no)
                         /\ arg_no' = arg_no + 1
                    ELSE /\ pc' = "chars"
                         /\ arg_no' = arg_no
            ELSE /\ parse_state' = separated.ps
                 /\ pc' = "finalise"
                 /\ arg_no' = arg_no
         /\ pos' = 0
         /\ UNCHANGED <<parser, mode, input, result>>

\* The top of one iteration of parse_env_args' loop over the environment
\* arguments: the separator before every argument but the first, then the
\* switch of the parse state to the argument
EnvArgStep ==
    /\ mode = "env"
    /\ pc = "arg"
    /\ EnvArgSeparated(IF arg_no > 0
                       THEN process_char(parser, Running(parse_state, args), Separator)
                       ELSE Running(parse_state, args))

\* What parse_env_args' inner loop does with the outcome of process_char
EnvCharProcessed(processed) ==
    IF Failed(processed) THEN Return(Propagate(processed))
    ELSE /\ args' = processed.args
         /\ IF processed.more
            THEN /\ parse_state' = increment_env_line_approximate_char_idx(
                         increment_env_arg_char_idx(processed.ps))
                 /\ IF pos + 1 < Len(input[arg_no + 1])
                    THEN /\ pos' = pos + 1
                         /\ pc' = "chars"
                         /\ arg_no' = arg_no
                    ELSE /\ pos' = pos + 1
                         /\ pc' = AfterEnvArg(arg_no)
                         /\ arg_no' = arg_no + 1
            ELSE /\ parse_state' = processed.ps
                 /\ pos' = pos
                 /\ pc' = "finalise"
                 /\ arg_no' = arg_no
         /\ UNCHANGED <<parser, mode, input, result>>

\* One iteration of parse_env_args' loop over env_arg.chars()
EnvCharStep ==
    /\ mode = "env"
    /\ pc = "chars"
    /\ EnvCharProcessed(process_char(parser, Running(parse_state, args),
                                     input[arg_no + 1][pos + 1]))

\* self.finalise_parse(&mut parse_state, &mut args)?; Ok(args)
Finalised(finalised) ==
    IF Failed(finalised) THEN Return(Propagate(finalised))
    ELSE /\ pc' = "done"
         /\ result' = OkResult(finalised.args)
         /\ parse_state' = finalised.ps
         /\ args' = finalised.args
         /\ UNCHANGED <<parser, mode, input, arg_no, pos>>

FinaliseStep ==
    /\ pc = "finalise"
    /\ Finalised(finalise_parse(parser, Running(parse_state, args)))

\* The state on entry to parse_line(text) of parser p
InitLine(p, text) ==
    /\ parser = p
    /\ mode = "line"
    /\ input = <<text>>
    /\ arg_no = 0
    /\ pos = 0
    /\ pc = IF text = <<>> THEN "finalise" ELSE "chars"
    /\ parse_state = ParseState_new(text, p.first_arg_is_binary,
                                    p.multi_char_option_code_requires_double_announcer)
    /\ args = <<>>
    /\ result = NoResult

\* The state on entry to parse_env_args(env_args) of parser p
InitEnv(p, env_args) ==
    /\ parser = p
    /\ mode = "env"
    /\ input = env_args
    /\ arg_no = 0
    /\ pos = 0
    /\ pc = IF env_args = <<>> THEN "finalise" ELSE "arg"
    /\ parse_state = ParseState_new(<<>>, p.first_arg_is_binary,
                                    p.multi_char_option_code_requires_double_announcer)
    /\ args = <<>>
    /\ result = NoResult

NextLine == ProcessCharStep \/ FinaliseStep

NextEnv == EnvArgStep \/ EnvCharStep \/ FinaliseStep

(***************************************************************************)
(* Inputs                                                                  *)
(***************************************************************************)
MaxLineLen == 5     \* longest line enumerated character by character
MaxTokens == 3      \* most tokens of a line enumerated token by token

\* Every text over the alphabet of at most n characters
CharLines(alphabet, n) == UNION {[1..k -> alphabet] : k \in 0..n}

RECURSIVE Join(_)
Join(tokens) ==
    IF tokens = <<>> THEN <<>>
    ELSE IF Len(tokens) = 1 THEN tokens[1]
    ELSE tokens[1] \o <<Space>> \o Join(Tail(tokens))

\* Every line of 1 to n of the tokens, separated by single spaces
TokenLines(tokens, n) == {Join(ts) : ts \in UNION {[1..k -> tokens] : k \in 1..n}}

\* tests/integration_test.rs, no_matchers
NoMatchersLine ==
    <<"b", "i", "n", "a", "r", "y", " ", "p", "a", "r", "a", "m", "1", " ",
      "p", "a", "r", "a", "m", "2", " ", "-", "a", " ", "-", "b", " ", "p",
      "a", "r", "a", "m", "3">>

\* The example of the crate documentation (lib.rs)
DocExampleLine ==
    <<"\"", "b", "i", "n", "a", "r", "y", " ", "n", "a", "m", "e", "\"",
      " ", "-", "a", " ", "\"", "1", "s", "t", " ", "\"", "\"", "P", "a",
      "r", "a", "m", "\"", "\"", "\"", " ", "-", "B", " ", "o", "p", "t",
      "V", "a", "l", "u", "e", " ", "\"", "p", "a", "r", "a", "m", "2",
      "\"", " ", "-", "c", " ", "\"", "C", " ", "O", "p", "t", "V", "a",
      "l", "u", "e", "\"">>

\* The matchers of that example
optionA == [Matcher_new_option(<<"optionA">>) EXCEPT !.option_codes = Some(<<with_text(<<"a">>)>>)]

optionB == [Matcher_new_option(<<"optionB">>) EXCEPT
                !.option_codes = Some(<<with_text(<<"b">>)>>),
                !.option_has_value = "IfPossible"]

optionC == [Matcher_new_option(<<"optionC">>) EXCEPT
                !.option_codes = Some(<<with_text(<<"c">>)>>),
                !.option_has_value = "Always"]

param1 == [Matcher_new_param(<<"param1">>) EXCEPT !.param_indices = Some({0})]

param2 == [Matcher_new_param(<<"param2">>) EXCEPT !.param_indices = Some({1})]

DocExampleMatchers == push_all(<<>>, <<optionA, optionB, optionC, param1, param2>>)

DocExampleParser == [Parser_new EXCEPT !.matchers = DocExampleMatchers]

(***************************************************************************)
(* Spec: parse_line of a parser without matchers                           *)
(***************************************************************************)
EqualsAnnouncerParser == [Parser_new EXCEPT !.option_value_announcer_chars = {Space, "="}]

NoMatcherParsers == {Parser_new, EqualsAnnouncerParser}

NoMatcherAlphabet == {"a", Dash, Space, "=", Quote}

NoMatcherTokens ==
    {<<"a">>, <<"b", "a">>, <<Dash, "a">>, <<Dash, "b", "a">>, <<Dash>>, <<"a", Dash>>,
     <<Dash, "a", "=", "v">>}

NoMatcherLines ==
    CharLines(NoMatcherAlphabet, MaxLineLen)
        \cup TokenLines(NoMatcherTokens, MaxTokens) \cup {NoMatchersLine}

Init == \E p \in NoMatcherParsers, text \in NoMatcherLines : InitLine(p, text)

Spec == Init /\ [][NextLine]_vars

(***************************************************************************)
(* Reading a line as the tokens it is made of                              *)
(***************************************************************************)
Chars(text) == {text[i] : i \in 1..Len(text)}

\* Non-empty, no space at either end, no two spaces in a row
SingleSpaced(text) ==
    /\ text # <<>>
    /\ text[1] # Space
    /\ text[Len(text)] # Space
    /\ \A i \in 1..(Len(text) - 1) : ~(text[i] = Space /\ text[i + 1] = Space)

\* The first token of a text: its characters up to the first space
RECURSIVE FirstToken(_)
FirstToken(text) ==
    IF text = <<>> \/ text[1] = Space THEN <<>>
    ELSE <<text[1]>> \o FirstToken(Tail(text))

\* The tokens of a single spaced text
RECURSIVE Tokens(_)
Tokens(text) ==
    IF text = <<>> THEN <<>>
    ELSE LET first == FirstToken(text)
         IN  IF Len(first) = Len(text) THEN <<first>>
             ELSE <<first>> \o Tokens(SubSeq(text, Len(first) + 2, Len(text)))

\* What a claim says of an argument: its kind, code, value and arg_index
ArgView(arg) ==
    [kind |-> arg.kind, code |-> arg.code, value_text |-> arg.value_text,
     arg_index |-> arg.arg_index]

ArgViews(as) == [i \in 1..Len(as) |-> ArgView(as[i])]

Finished == pc = "done"

(***************************************************************************)
(* C1: with no matchers and the default line configuration, a line of      *)
(* unquoted tokens separated by single spaces parses to one argument per   *)
(* token, in order, with arg_index 0, 1, ...: the first is the Binary,     *)
(* a later token that starts with '-' is an Option whose code is the rest  *)
(* of the token and which has no value, every other token is a Param whose *)
(* value is the token.                                                     *)
(***************************************************************************)
C1_Expected(tokens) ==
    [i \in 1..Len(tokens) |->
        IF i = 1
        THEN [kind |-> "Binary", code |-> None, value_text |-> Some(tokens[i]), arg_index |-> 0]
        ELSE IF tokens[i][1] = Dash
        THEN [kind |-> "Option", code |-> Some(Tail(tokens[i])), value_text |-> None, arg_index |-> i - 1]
        ELSE [kind |-> "Param", code |-> None, value_text |-> Some(tokens[i]), arg_index |-> i - 1]]

C1_InScope ==
    /\ parser = Parser_new
    /\ SingleSpaced(input[1])
    /\ Quote \notin Chars(input[1])

MaxMatchers == 2    \* longest matcher list enumerated from the pool

anyArg == Matcher_new(<<"anyArg">>)

optionBx == [optionB EXCEPT !.name = <<"optionBx">>, !.value_text = Some(with_text(<<"x">>))]

paramX == [Matcher_new_param(<<"paramX">>) EXCEPT !.value_text = Some(with_text(<<"x">>))]

MatcherPool == {optionA, optionB, optionBx, param1, paramX, anyArg}

MatcherLists ==
    {push_all(<<>>, ms) : ms \in UNION {[1..k -> MatcherPool] : k \in 1..MaxMatchers}}

MatchParsers ==
    {[Parser_new EXCEPT !.matchers = ms, !.first_arg_is_binary = FALSE] : ms \in MatcherLists}

MatchTokens == {<<"a">>, <<"x">>, <<Dash, "a">>, <<Dash, "b">>}

MatchLines == TokenLines(MatchTokens, MaxTokens)

InitMatch == \E p \in MatchParsers, text \in MatchLines : InitLine(p, text)

SpecMatch == InitMatch /\ [][NextLine]_vars

(***************************************************************************)
(* C2: with a non-empty matcher list, the matcher of every emitted Param   *)
(* and Option is the first one in registration order that accepts the      *)
(* argument: it accepts the argument, and no matcher pushed before it      *)
(* accepts the argument when evaluated with the argument's own counters,   *)
(* code, value text and has-value flag.                                    *)
(***************************************************************************)
\* The counters, code and value text a matcher was evaluated against
StateOfArg(arg) ==
    [ParseState_new(<<>>, FALSE, FALSE) EXCEPT
        !.arg_count = arg.arg_index,
        !.option_count = IF arg.option_index # None THEN arg.option_index[1] ELSE 0,
        !.param_count = IF arg.param_index # None THEN arg.param_index[1] ELSE 0,
        !.option_code = IF arg.code # None THEN arg.code[1] ELSE <<>>,
        !.value_bldr = IF arg.value_text # None THEN arg.value_text[1] ELSE <<>>]

Accepts(p, k, arg) ==
    IF arg.kind = "Option"
    THEN try_match_option(p, StateOfArg(arg), arg.value_text # None, p.matchers[k])
    ELSE try_match_param(p, StateOfArg(arg), p.matchers[k])

C2_FirstMatcherWins ==
    parser.matchers # <<>> =>
        \A i \in 1..Len(args) :
            args[i].kind \in {"Param", "Option"} =>
                /\ args[i].matcher \in 1..Len(parser.matchers)
                /\ parser.matchers[args[i].matcher].index = args[i].matcher - 1
                /\ Accepts(parser, args[i].matcher, args[i])
                /\ \A j \in 1..(args[i].matcher - 1) : ~Accepts(parser, j, args[i])

\* Two different matchers accept an emitted argument and the first has it
C2_Witness ==
    /\ Finished
    /\ result.tag = "Ok"
    /\ \E i \in 1..Len(result.args) :
            /\ result.args[i].kind = "Option"
            /\ result.args[i].value_text # None
            /\ result.args[i].matcher = 1
            /\ Len(parser.matchers) = 2
            /\ parser.matchers[1].name # parser.matchers[2].name
            /\ Accepts(parser, 2, result.args[i])

(***************************************************************************)
(* C3: with an empty matcher list parse_line never fails with a dispatch   *)
(* error (UnmatchedOption, UnmatchedParam, NoMatchForOptionWithValue):     *)
(* every param and option is accepted by the accept-all matcher, an option *)
(* whose value is announced by a non-whitespace value announcer included.  *)
(***************************************************************************)
DispatchErrors == {"UnmatchedOption", "UnmatchedParam", "NoMatchForOptionWithValue"}

C3_NoDispatchError ==
    (Finished /\ parser.matchers = <<>> /\ result.tag = "Err") =>
        result.error[1].type_id \notin DispatchErrors

(***************************************************************************)
(* SpecFail: parse_line and parse_env_args of parsers with matchers, on    *)
(* inputs that fail as well as on inputs that parse                        *)
(***************************************************************************)
FailParsers == {DocExampleParser, set_env_args_defaults(DocExampleParser)}

FailTokens == {<<"x">>, <<Dash, "a">>, <<Dash, "b">>, <<Dash, "z">>, <<Quote, "x">>}

FailEnvArgs == UNION {[1..k -> FailTokens] : k \in 0..MaxTokens}

FailLines == TokenLines(FailTokens, MaxTokens)

InitFail ==
    \/ \E p \in FailParsers, text \in FailLines : InitLine(p, text)
    \/ \E p \in FailParsers, env_args \in FailEnvArgs : InitEnv(p, env_args)

NextFail == ProcessCharStep \/ EnvArgStep \/ EnvCharStep \/ FinaliseStep

SpecFail == InitFail /\ [][NextFail]_vars

(***************************************************************************)
(* C4: parsing is fail-fast.  When the call of process_char or of          *)
(* finalise_parse that the parse is about to make produces a ParseError,   *)
(* the parse returns with that step: the caller gets exactly that error    *)
(* and no Arg list, whatever had been emitted before, no further character *)
(* is consumed, and nothing happens after a parse has returned.            *)
(***************************************************************************)
\* The outcome of the call the parse function makes next
NextCall ==
    CASE pc = "chars" ->
            process_char(parser, Running(parse_state, args), input[arg_no + 1][pos + 1])
      [] pc = "arg" ->
            IF arg_no > 0 THEN process_char(parser, Running(parse_state, args), Separator)
            ELSE Running(parse_state, args)
      [] pc = "finalise" -> finalise_parse(parser, Running(parse_state, args))
      [] OTHER -> Running(parse_state, args)

C4_FailFast ==
    [][/\ pc # "done"
       /\ NextCall.err # None =>
            /\ pc' = "done"
            /\ result' = [tag |-> "Err", args |-> <<>>, error |-> NextCall.err]
            /\ pos' = pos
            /\ arg_no' = arg_no]_vars

\* A parse that failed after it had emitted arguments, with input left
C4_Witness ==
    /\ Finished
    /\ result.tag = "Err"
    /\ Len(args) >= 1
    /\ \/ pos + 1 < Len(input[arg_no + 1])
       \/ arg_no + 1 < Len(input)

(***************************************************************************)
(* SpecDoc: parse_line of the parser of the crate documentation's example  *)
(***************************************************************************)
DocParsers == {DocExampleParser, [DocExampleParser EXCEPT !.first_arg_is_binary = FALSE]}

DocTokens ==
    {<<"x">>, <<Dash, "a">>, <<Dash, "b">>, <<Dash, "B">>, <<Dash, "c">>,
     <<Quote, "x", Space, "y", Quote>>}

DocLines == TokenLines(DocTokens, MaxTokens) \cup {DocExampleLine}

InitDoc == \E p \in DocParsers, text \in DocLines : InitLine(p, text)

SpecDoc == InitDoc /\ [][NextLine]_vars

\* The tokens of a line: the runs of characters that no space outside
\* quotes divides
RECURSIVE QuotedSplit(_, _, _, _, _)
QuotedSplit(text, i, token, quoted, tokens) ==
    LET closed == IF token = <<>> THEN tokens ELSE Append(tokens, token)
    IN  IF i > Len(text) THEN closed
        ELSE IF text[i] = Space /\ ~quoted
        THEN QuotedSplit(text, i + 1, <<>>, FALSE, closed)
        ELSE QuotedSplit(text, i + 1, Append(token, text[i]),
                         IF text[i] = Quote THEN ~quoted ELSE quoted, tokens)

QuotedTokens(text) == QuotedSplit(text, 1, <<>>, FALSE, <<>>)

\* A text with every doubled quote character made a single one
RECURSIVE Undoubled(_)
Undoubled(text) ==
    IF Len(text) < 2 THEN text
    ELSE IF text[1] = Quote /\ text[2] = Quote
    THEN <<Quote>> \o Undoubled(SubSeq(text, 3, Len(text)))
    ELSE <<text[1]>> \o Undoubled(Tail(text))

\* The value a token stands for: a quoted token without its enclosing quotes
Unquoted(token) ==
    IF token[1] = Quote THEN Undoubled(SubSeq(token, 2, Len(token) - 1)) ELSE token

(***************************************************************************)
(* C5: with the documentation's matchers a (Never), b (IfPossible),        *)
(* c (Always), param index 0 and param index 1, an option b or c (in any   *)
(* letter case) followed by one space and a token that starts with no      *)
(* announcer is emitted as one Option whose value is that token, without   *)
(* its enclosing quotes; the token is no Param and does not advance        *)
(* param_index; an option a has value None; the documented line gives      *)
(* exactly 6 args.                                                         *)
(***************************************************************************)
C5_View(kind, matcher, code, value_text, param_index, arg_index) ==
    [kind |-> kind, matcher |-> matcher, code |-> code, value_text |-> value_text,
     param_index |-> param_index, arg_index |-> arg_index]

C5_ViewOf(arg) ==
    C5_View(arg.kind, arg.matcher, arg.code, arg.value_text, arg.param_index, arg.arg_index)

C5_Matcher(code) ==
    CASE to_uppercase(code) = <<"A">> -> 1
      [] to_uppercase(code) = <<"B">> -> 2
      [] to_uppercase(code) = <<"C">> -> 3
      [] OTHER -> 0

\* The args the claim gives the tokens from the i-th on, after params
\* params and the args views; in_scope is FALSE when a token is met that
\* the claim says nothing about
RECURSIVE C5_Walk(_, _, _, _)
C5_Walk(tokens, i, params, views) ==
    IF i > Len(tokens) THEN [in_scope |-> TRUE, views |-> views]
    ELSE LET token == tokens[i]
             out_of_scope == [in_scope |-> FALSE, views |-> views]
         IN  IF token[1] = Dash
             THEN LET code == Tail(token)
                  IN  IF C5_Matcher(code) = 0 THEN out_of_scope
                      ELSE IF C5_Matcher(code) = 1
                      THEN C5_Walk(tokens, i + 1, params,
                              Append(views, C5_View("Option", 1, Some(code), None, None, Len(views))))
                      ELSE IF i < Len(tokens) /\ tokens[i + 1][1] # Dash
                      THEN C5_Walk(tokens, i + 2, params,
                              Append(views, C5_View("Option", C5_Matcher(code), Some(code),
                                                    Some(Unquoted(tokens[i + 1])), None, Len(views))))
                      ELSE out_of_scope
             ELSE IF params >= 2 THEN out_of_scope
             ELSE C5_Walk(tokens, i + 1, params + 1,
                      Append(views, C5_View("Param", 4 + params, None, Some(Unquoted(token)),
                                            Some(params), Len(views))))

C5_Expected(tokens, first_arg_is_binary) ==
    IF first_arg_is_binary
    THEN C5_Walk(tokens, 2, 0,
            <<C5_View("Binary", 0, None, Some(Unquoted(tokens[1])), None, 0)>>)
    ELSE C5_Walk(tokens, 1, 0, <<>>)

C5_OptionValues ==
    (Finished /\ parser.matchers = DocExampleMatchers) =>
        LET expected == C5_Expected(QuotedTokens(input[1]), parser.first_arg_is_binary)
        IN  /\ expected.in_scope =>
                /\ result.tag = "Ok"
                /\ [i \in 1..Len(result.args) |-> C5_ViewOf(result.args[i])] = expected.views
            /\ (parser = DocExampleParser /\ input[1] = DocExampleLine) =>
                    result.tag = "Ok" /\ Len(result.args) = 6

C5_Witness ==
    /\ Finished
    /\ parser = DocExampleParser
    /\ input[1] = DocExampleLine
    /\ Len(result.args) = 6
    /\ result.args[4].kind = "Option"
    /\ result.args[4].value_text = Some(<<"o", "p", "t", "V", "a", "l", "u", "e">>)
    /\ result.args[5].kind = "Param"
    /\ result.args[5].param_index = Some(1)
    /\ result.args[6].value_text = Some(<<"C", Space, "O", "p", "t", "V", "a", "l", "u", "e">>)

(***************************************************************************)
(* SpecQuote: parse_line of a quoted value with its quotes doubled         *)
(***************************************************************************)
MaxValueLen == 4    \* longest value that is quoted and parsed back

QuoteValues == CharLines({Quote, Space, "x"}, MaxValueLen)

\* A text with every quote character written twice
RECURSIVE Doubled(_)
Doubled(text) ==
    IF text = <<>> THEN <<>>
    ELSE (IF text[1] = Quote THEN <<Quote, Quote>> ELSE <<text[1]>>) \o Doubled(Tail(text))

\* The value between an opening and a closing quote
Quoted(value) == <<Quote>> \o Doubled(value) \o <<Quote>>

QuoteParsers == {Parser_new, [Parser_new EXCEPT !.first_arg_is_binary = FALSE]}

InitQuote == \E p \in QuoteParsers, value \in QuoteValues : InitLine(p, Quoted(value))

SpecQuote == InitQuote /\ [][NextLine]_vars

(***************************************************************************)
(* C6: quote doubling round trip.  With embed_quote_char_with_double set   *)
(* and no escape character, the line made of an opening quote, a value     *)
(* with each of its quote characters doubled, and a closing quote parses   *)
(* to exactly one argument whose value_text is the value, for every value  *)
(* of quote characters, spaces and other characters.                       *)
(***************************************************************************)
C6_QuoteRoundTrip ==
    \A value \in QuoteValues :
        (Finished /\ input[1] = Quoted(value)
                  /\ parser.embed_quote_char_with_double /\ parser.escape_char = None) =>
            /\ result.tag = "Ok"
            /\ Len(result.args) = 1
            /\ result.args[1].value_text = Some(value)

\* The value  "x "  with two quote characters, written  """x """
C6_Witness ==
    /\ Finished
    /\ input[1] = <<Quote, Quote, Quote, "x", Space, Quote, Quote, Quote>>
    /\ result.tag = "Ok"
    /\ result.args[1].kind = "Param"
    /\ result.args[1].value_text = Some(<<Quote, "x", Space, Quote>>)

(***************************************************************************)
(* SpecBinary: parse_line with first_arg_is_binary of lines of any shape,  *)
(* of parsers without matchers, with matchers that reject every param and  *)
(* with the matchers of the documentation                                  *)
(***************************************************************************)
BinaryMatcherLists ==
    {<<>>, push_all(<<>>, <<optionA>>), push_all(<<>>, <<optionA, optionB>>),
     push_all(<<>>, <<paramX>>), DocExampleMatchers}

BinaryParsers == {[Parser_new EXCEPT !.matchers = ms] : ms \in BinaryMatcherLists}

BinaryLines == CharLines({"a", Dash, Space, Quote}, MaxLineLen)

InitBinary == \E p \in BinaryParsers, text \in BinaryLines : InitLine(p, text)

SpecBinary == InitBinary /\ [][NextLine]_vars

(***************************************************************************)
(* C7: with first_arg_is_binary the first token of the input is emitted    *)
(* as the Binary with arg_index 0, whatever its shape and whatever the     *)
(* matchers.  The first argument emitted is that Binary, a leading option  *)
(* announcer is part of its value, a                                       *)
(* parse that succeeds on a line that is not empty has it, and a parse     *)
(* that fails before any argument fails on the quoting of the token, never *)
(* because no matcher accepts it.                                          *)
(***************************************************************************)
QuotingErrors == {"ParamMissingClosingQuoteCharacter", "QuotedParamNotFollowedByWhitespaceChar"}

MultiCharParser == [Parser_new EXCEPT !.multi_char_option_code_requires_double_announcer = TRUE]

MultiParsers == {MultiCharParser, [MultiCharParser EXCEPT !.first_arg_is_binary = FALSE]}

MultiTokens ==
    {<<"x">>, <<Dash, "a">>, <<Dash, "a", "b">>, <<Dash, Dash, "a">>, <<Dash, Dash, "a", "b">>}

MultiLines == TokenLines(MultiTokens, MaxTokens)

InitMulti == \E p \in MultiParsers, text \in MultiLines : InitLine(p, text)

SpecMulti == InitMulti /\ [][NextLine]_vars

(***************************************************************************)
(* C8: with multi_char_option_code_requires_double_announcer set, a line   *)
(* whose first option is written with one announcer character and a code   *)
(* of two or more characters (-ab) fails with                              *)
(* OptionCodeMissingDoubleAnnouncer.                                       *)
(***************************************************************************)
\* The tokens that can be options: all but the binary
OptionPlaces(tokens, first_arg_is_binary) ==
    {i \in 1..Len(tokens) : tokens[i][1] = Dash /\ (i > 1 \/ ~first_arg_is_binary)}

SingleAnnouncerMultiChar(token) ==
    /\ Len(token) >= 3
    /\ token[1] = Dash
    /\ token[2] # Dash

C8_InScope ==
    /\ parser.multi_char_option_code_requires_double_announcer
    /\ parser.matchers = <<>>
    /\ LET tokens == Tokens(input[1])
           places == OptionPlaces(tokens, parser.first_arg_is_binary)
       IN  /\ places # {}
           /\ SingleAnnouncerMultiChar(tokens[CHOOSE i \in places : \A j \in places : i <= j])

C8_MissingDoubleAnnouncer ==
    (Finished /\ C8_InScope) =>
        /\ result.tag = "Err"
        /\ result.error[1].type_id = "OptionCodeMissingDoubleAnnouncer"

(***************************************************************************)
(* SpecTerminate: parse_line with a parse terminate character              *)
(***************************************************************************)
Bar == "|"

TerminateParser == [Parser_new EXCEPT !.parse_terminate_chars = {Bar}]

TerminateParsers ==
    {TerminateParser,
     [TerminateParser EXCEPT !.matchers = push_all(<<>>, <<optionB, anyArg>>)]}

TerminateLines == CharLines({"b", Bar, Space, Dash, Quote}, MaxLineLen)

InitTerminate == \E p \in TerminateParsers, text \in TerminateLines : InitLine(p, text)

SpecTerminate == InitTerminate /\ [][NextLine]_vars

(***************************************************************************)
(* C9: a parse terminate character met outside quoted text truncates the   *)
(* line without error: the parse of a line with a terminate character that *)
(* no quote character precedes returns what the parse of the text before   *)
(* that character returns, wherever the character stands: between tokens,  *)
(* in an option code, in an unquoted param or in an unquoted option value. *)
(***************************************************************************)
C9_TerminateTruncates ==
    Finished =>
        \A k \in 1..Len(input[1]) :
            (/\ input[1][k] \in parser.parse_terminate_chars
             /\ Quote \notin Chars(SubSeq(input[1], 1, k - 1))) =>
                result = parse_line(parser, SubSeq(input[1], 1, k - 1))

(***************************************************************************)
(* SpecRetry: parse_line of  -c word  and similar lines under an option    *)
(* matcher c (IfPossible) with a value filter and a matcher for any param  *)
(***************************************************************************)
optionCx ==
    [Matcher_new_option(<<"optionCx">>) EXCEPT
        !.option_codes = Some(<<with_text(<<"c">>)>>),
        !.option_has_value = "IfPossible",
        !.value_text = Some(with_text(<<"x">>))]

anyParam == Matcher_new_param(<<"anyParam">>)

RetryParser ==
    [Parser_new EXCEPT !.matchers = push_all(<<>>, <<optionCx, anyParam>>),
                       !.first_arg_is_binary = FALSE]

\* The same option matcher and no matcher for a param
RetryOptionOnlyParser ==
    [Parser_new EXCEPT !.matchers = push_all(<<>>, <<optionCx>>),
                       !.first_arg_is_binary = FALSE]

RetryParsers ==
    {RetryParser, [RetryParser EXCEPT !.first_arg_is_binary = TRUE], RetryOptionOnlyParser}

RetryTokens == {<<Dash, "c">>, <<"x">>, <<"w">>, <<"w", "o", "r", "d">>}

RetryLines == TokenLines(RetryTokens, MaxTokens)

InitRetry == \E p \in RetryParsers, text \in RetryLines : InitLine(p, text)

SpecRetry == InitRetry /\ [][NextLine]_vars

(***************************************************************************)
(* C10: ambiguity retry.  With the whitespace value announcer, matchers    *)
(* [option c, IfPossible, value_text x] and [any param] and the line       *)
(* -c word , the value word does not match x, the option is matched again  *)
(* without a value and word is classified afresh as a Param: the result    *)
(* is [Option c with no value, Param word], not an error.                  *)
(***************************************************************************)
C10_Line == <<Dash, "c", Space, "w", "o", "r", "d">>

C10_AmbiguityRetry ==
    (Finished /\ parser = RetryParser /\ input[1] = C10_Line) =>
        /\ result.tag = "Ok"
        /\ ArgViews(result.args) =
            <<[kind |-> "Option", code |-> Some(<<"c">>), value_text |-> None, arg_index |-> 0],
              [kind |-> "Param", code |-> None, value_text |-> Some(<<"w", "o", "r", "d">>),
               arg_index |-> 1]>>

(***************************************************************************)
(* C11: with the whitespace value announcer, the matcher [option c,        *)
(* IfPossible, value_text x] alone and the line  -c word , whose word the  *)
(* value filter rejects and no matcher accepts as a param, the parse fails *)
(* with UnmatchedParam: the option is resolved as a flag and the word is   *)
(* the unmatched param; it does not fail with UnmatchedOption and does not *)
(* drop the word.                                                          *)
(***************************************************************************)
C11_UnmatchedParam ==
    (Finished /\ parser = RetryOptionOnlyParser /\ input[1] = C10_Line) =>
        /\ result.tag = "Err"
        /\ result.error[1].type_id = "UnmatchedParam"

(***************************************************************************)
(* SpecAnnounce: parse_line of lines in which the token after an option    *)
(* code starts with an option announcer ( -c -d ,  -c -5 ), under a        *)
(* matcher for code c that is IfPossible or Always                         *)
(***************************************************************************)
optionCIfPossible ==
    [Matcher_new_option(<<"optionCIfPossible">>) EXCEPT
        !.option_codes = Some(<<with_text(<<"c">>)>>),
        !.option_has_value = "IfPossible"]

optionCAlways ==
    [Matcher_new_option(<<"optionCAlways">>) EXCEPT
        !.option_codes = Some(<<with_text(<<"c">>)>>),
        !.option_has_value = "Always",
        !.option_value_can_start_with_option_announcer = FALSE]

optionD == [Matcher_new_option(<<"optionD">>) EXCEPT !.option_codes = Some(<<with_text(<<"d">>)>>)]

IfPossibleParser ==
    [Parser_new EXCEPT !.matchers = push_all(<<>>, <<optionCIfPossible, optionD>>),
                       !.first_arg_is_binary = FALSE]

AlwaysParser ==
    [Parser_new EXCEPT !.matchers = push_all(<<>>, <<optionCAlways, optionD>>),
                       !.first_arg_is_binary = FALSE]

AnnounceParsers == {IfPossibleParser, AlwaysParser}

AnnounceTokens == {<<Dash, "c">>, <<Dash, "d">>, <<Dash, "5">>, <<"w">>}

\* Lines of the tokens, and the same lines with a space at the end
AnnounceLines ==
    TokenLines(AnnounceTokens, MaxTokens)
        \cup {text \o <<Space>> : text \in TokenLines(AnnounceTokens, MaxTokens)}

InitAnnounce == \E p \in AnnounceParsers, text \in AnnounceLines : InitLine(p, text)

SpecAnnounce == InitAnnounce /\ [][NextLine]_vars

(***************************************************************************)
(* C12: with the whitespace value announcer and code c accepted only by an *)
(* IfPossible matcher, in the line  -c -d  the token after the code starts *)
(* with an option announcer, so the option c is emitted with value None    *)
(* and  -d  is parsed as a separate option.                                *)
(***************************************************************************)
C12_Line == <<Dash, "c", Space, Dash, "d">>

C12_NextOptionNotValue ==
    (Finished /\ parser = IfPossibleParser /\ input[1] = C12_Line) =>
        /\ result.tag = "Ok"
        /\ ArgViews(result.args) =
            <<[kind |-> "Option", code |-> Some(<<"c">>), value_text |-> None, arg_index |-> 0],
              [kind |-> "Option", code |-> Some(<<"d">>), value_text |-> None, arg_index |-> 1]>>

(***************************************************************************)
(* C13: with code c accepted by an Always matcher whose                    *)
(* option_value_can_start_with_option_announcer is false, the line  -c -5  *)
(* fails with OptionValueCannotStartWithOptionAnnouncer.                   *)
(***************************************************************************)
C13_Line == <<Dash, "c", Space, Dash, "5">>

C13_ValueCannotStartWithAnnouncer ==
    (Finished /\ parser = AlwaysParser /\ input[1] = C13_Line) =>
        /\ result.tag = "Err"
        /\ result.error[1].type_id = "OptionValueCannotStartWithOptionAnnouncer"

(***************************************************************************)
(* C14: in line mode every emitted Arg has char_index equal to the 0-based *)
(* index of the first character of its token (the opening quote of a       *)
(* quoted param, the announcer of an option),                              *)
(* env_line_approximate_char_index equal to char_index and env_arg_index   *)
(* 0; char_index is strictly increasing along the result.                  *)
(***************************************************************************)
\* The i-th character (from 1) of a line is a space outside quotes
SeparatesTokens(text, i) ==
    /\ text[i] = Space
    /\ Cardinality({j \in 1..(i - 1) : text[j] = Quote}) % 2 = 0

\* The positions (from 1) at which the tokens of a line start
TokenStartPositions(text) ==
    {i \in 1..Len(text) :
        /\ ~SeparatesTokens(text, i)
        /\ i = 1 \/ SeparatesTokens(text, i - 1)}

\* The 0-based index at which the n-th token (from 1) of a line starts
TokenStart(text, n) ==
    (CHOOSE i \in TokenStartPositions(text) :
        Cardinality({j \in TokenStartPositions(text) : j < i}) = n - 1) - 1

\* The number of tokens an emitted argument took: an option with a value
\* announced by a space took two
TokensOf(arg) == IF arg.kind = "Option" /\ arg.value_text # None THEN 2 ELSE 1

\* The number of the token with which the i-th emitted argument started
RECURSIVE FirstTokenOf(_, _)
FirstTokenOf(emitted, i) ==
    IF i = 1 THEN 1 ELSE FirstTokenOf(emitted, i - 1) + TokensOf(emitted[i - 1])

EnvParsers ==
    {set_env_args_defaults(Parser_new),
     set_env_args_defaults(DocExampleParser),
     [set_env_args_defaults(DocExampleParser) EXCEPT !.first_arg_is_binary = FALSE]}

EnvTokens == {<<"x">>, <<"x", "y">>, <<Dash, "a">>, <<Dash, "b">>, <<Dash, "c">>}

EnvArgLists == UNION {[1..k -> EnvTokens] : k \in 0..MaxTokens}

InitEnvArgs == \E p \in EnvParsers, env_args \in EnvArgLists : InitEnv(p, env_args)

SpecEnv == InitEnvArgs /\ [][NextEnv]_vars

\* The sum over the OS arguments before the k-th (from 1) of their length
\* plus one
RECURSIVE EnvLineOffset(_, _)
EnvLineOffset(env_args, k) ==
    IF k <= 1 THEN 0 ELSE EnvLineOffset(env_args, k - 1) + Len(env_args[k - 1]) + 1

(***************************************************************************)
(* C15: in env-args mode with OS arguments a_0 .. a_n that are each a      *)
(* single token, the Arg that originates from a_k has char_index 0 and     *)
(* env_line_approximate_char_index equal to the sum over j < k of          *)
(* len(a_j) + 1.                                                           *)
(***************************************************************************)
C15_EnvCharIndex ==
    mode = "env" =>
        \A i \in 1..Len(args) :
            /\ FirstTokenOf(args, i) <= Len(input)
            /\ args[i].char_index = 0
            /\ args[i].env_line_approximate_char_index =
                    EnvLineOffset(input, FirstTokenOf(args, i))

\* A param emitted from the third OS argument, after an option that took
\* the second as its value
C15_Witness ==
    /\ mode = "env"
    /\ Len(args) = 2
    /\ args[1].kind = "Option" /\ args[1].value_text = Some(<<"x", "y">>)
    /\ args[2].kind = "Param" /\ args[2].env_line_approximate_char_index = 6

(***************************************************************************)
(* C16: in env-args mode every Arg's env_arg_index is the index of the OS  *)
(* argument in which the parsed argument started; an option whose code is  *)
(* OS argument k and whose value is OS argument k+1 is reported with       *)
(* env_arg_index k.                                                        *)
(***************************************************************************)
C16_EnvArgIndex ==
    mode = "env" =>
        \A i \in 1..Len(args) : args[i].env_arg_index = FirstTokenOf(args, i) - 1

(***************************************************************************)
(* SpecRegistry: the calls that change the parser's list of matchers.      *)
(* pc holds the name of the last call, input its name argument, pos its    *)
(* index argument and result what it returned; a call that panics ends the *)
(* program.                                                                *)
(***************************************************************************)
MaxRegistry == 3    \* most matchers in the list

MatcherNames == {<<"a">>, <<"b">>}

\* Matcher::new, Matcher::new_option and Matcher::new_param of a name
NewMatchers(name) == {Matcher_new(name), Matcher_new_option(name), Matcher_new_param(name)}

\* The 1-based position of the first matcher with the name, 0 when there is none
FirstNamed(matchers, name) ==
    IF \E k \in 1..Len(matchers) : matchers[k].name = name
    THEN CHOOSE k \in 1..Len(matchers) :
            /\ matchers[k].name = name
            /\ \A j \in 1..(k - 1) : matchers[j].name # name
    ELSE 0

find_matcher(matchers, name) ==
    IF FirstNamed(matchers, name) = 0 THEN None
    ELSE Some(matchers[FirstNamed(matchers, name)])

\* Vec::remove: panics when index is not less than the length
delete_matcher_at(matchers, index) ==
    IF index >= Len(matchers)
    THEN [matchers |-> matchers, panic |-> TRUE, returned |-> <<>>]
    ELSE [matchers |-> SubSeq(matchers, 1, index) \o SubSeq(matchers, index + 2, Len(matchers)),
          panic |-> FALSE, returned |-> <<>>]

delete_matcher(matchers, name) ==
    IF find_matcher(matchers, name) # None
    THEN [delete_matcher_at(matchers, find_matcher(matchers, name)[1].index)
            EXCEPT !.returned = <<TRUE>>]
    ELSE [matchers |-> matchers, panic |-> FALSE, returned |-> <<FALSE>>]

clear_matchers(matchers) == [matchers |-> <<>>, panic |-> FALSE, returned |-> <<>>]

\* The state after a call with the arguments and the outcome
Called(name, argument, index, outcome) ==
    /\ parser' = [parser EXCEPT !.matchers = outcome.matchers]
    /\ pc' = name
    /\ input' = <<argument>>
    /\ pos' = index
    /\ result' = IF outcome.panic THEN PanicResult ELSE OkResult(outcome.returned)
    /\ UNCHANGED <<mode, arg_no, parse_state, args>>

Alive == mode = "registry" /\ result.tag # "Panic"

PushMatcher ==
    /\ Alive
    /\ Len(parser.matchers) < MaxRegistry
    /\ \E name \in MatcherNames : \E matcher \in NewMatchers(name) :
          Called("push_matcher", name, 0,
                 [matchers |-> push_matcher(parser.matchers, matcher),
                  panic |-> FALSE, returned |-> <<>>])

DeleteMatcherAt ==
    /\ Alive
    /\ \E index \in 0..MaxRegistry :
          Called("delete_matcher_at", <<>>, index,
                 delete_matcher_at(parser.matchers, index))

DeleteMatcher ==
    /\ Alive
    /\ \E name \in MatcherNames :
          Called("delete_matcher", name, 0, delete_matcher(parser.matchers, name))

ClearMatchers ==
    /\ Alive
    /\ Called("clear_matchers", <<>>, 0, clear_matchers(parser.matchers))

InitRegistry ==
    /\ parser = Parser_new
    /\ mode = "registry"
    /\ input = <<>>
    /\ arg_no = 0
    /\ pos = 0
    /\ pc = "new"
    /\ parse_state = ParseState_new(<<>>, Parser_new.first_arg_is_binary,
                                    Parser_new.multi_char_option_code_requires_double_announcer)
    /\ args = <<>>
    /\ result = NoResult

NextRegistry == PushMatcher \/ DeleteMatcherAt \/ DeleteMatcher \/ ClearMatchers

SpecRegistry == InitRegistry /\ [][NextRegistry]_vars

(***************************************************************************)
(* C17: after any sequence of push_matcher / push_new_*_matcher,           *)
(* delete_matcher_at, delete_matcher and clear_matchers, every matcher in  *)
(* the list has index() equal to its position in matchers().               *)
(***************************************************************************)
C17_IndexIsPosition ==
    mode = "registry" =>
        \A k \in 1..Len(parser.matchers) : parser.matchers[k].index = k - 1

(***************************************************************************)
(* C18: delete_matcher(name), in any state of the list, removes exactly    *)
(* the first matcher whose name equals name, leaves the others in place    *)
(* and in order and returns true; when no matcher has the name it returns  *)
(* false and leaves the list unchanged.                                    *)
(***************************************************************************)
\* The list without its k-th matcher (from 1)
WithoutNth(matchers, k) == SubSeq(matchers, 1, k - 1) \o SubSeq(matchers, k + 1, Len(matchers))

C18_DeleteFirstNamed ==
    [][(mode = "registry" /\ pc' = "delete_matcher") =>
            IF FirstNamed(parser.matchers, input'[1]) = 0
            THEN /\ parser'.matchers = parser.matchers
                 /\ result' = OkResult(<<FALSE>>)
            ELSE /\ parser'.matchers =
                        WithoutNth(parser.matchers, FirstNamed(parser.matchers, input'[1]))
                 /\ result' = OkResult(<<TRUE>>)]_vars

(***************************************************************************)
(* C19: a ParseError built for a param carries param_index equal to the    *)
(* number of Param args emitted before the failure, whatever the number of *)
(* options emitted.                                                        *)
(***************************************************************************)
\* The number of Param args among the emitted
ParamsEmitted(emitted) == Cardinality({i \in 1..Len(emitted) : emitted[i].kind = "Param"})

C19_ParamErrorIndex ==
    (Finished /\ result.tag = "Err" /\ result.error[1].param_index # None) =>
        result.error[1].param_index = Some(ParamsEmitted(args))

(***************************************************************************)
(* SpecCase: parse_line under every setting of option_codes_case_sensitive *)
(* and option_values_case_sensitive, with an option matcher c (Always)     *)
(* whose value filter is the text x, with and without an override of the   *)
(* case sensitivity in the RegexOrText                                     *)
(***************************************************************************)
optionCValueX(override_case_sensitive) ==
    [Matcher_new_option(<<"optionCValueX">>) EXCEPT
        !.option_codes = Some(<<with_text(<<"c">>)>>),
        !.option_has_value = "Always",
        !.value_text = Some([with_text(<<"x">>) EXCEPT
                                !.override_case_sensitive = override_case_sensitive])]

CaseParsers ==
    {[Parser_new EXCEPT !.matchers = push_all(<<>>, <<optionCValueX(override)>>),
                        !.first_arg_is_binary = FALSE,
                        !.option_codes_case_sensitive = codes,
                        !.option_values_case_sensitive = values] :
        override \in {None, Some(TRUE)}, codes \in BOOLEAN, values \in BOOLEAN}

CaseTokens == {<<Dash, "c">>, <<Dash, "C">>, <<"x">>, <<"X">>}

CaseLines == TokenLines(CaseTokens, MaxTokens)

InitCase == \E p \in CaseParsers, text \in CaseLines : InitLine(p, text)

SpecCase == InitCase /\ [][NextLine]_vars

(***************************************************************************)
(* C20: whether the text of an option value is matched with case           *)
(* sensitivity is decided by option_values_case_sensitive, unless the      *)
(* RegexOrText overrides it, and not by option_codes_case_sensitive: the   *)
(* line  -c v  with v one of x and X matches the value filter x exactly    *)
(* when v is x or the values are matched without case sensitivity; in      *)
(* particular when values are case sensitive and codes are not,  -c X      *)
(* does not match.                                                         *)
(***************************************************************************)
\* The case sensitivity the value filter of the parser's matcher is to use
ValuesCaseSensitive ==
    IF parser.matchers[1].value_text[1].override_case_sensitive # None
    THEN parser.matchers[1].value_text[1].override_case_sensitive[1]
    ELSE parser.option_values_case_sensitive

C20_ValueCaseSensitivity ==
    \A v \in {"x", "X"} :
        (/\ Finished
         /\ parser \in CaseParsers
         /\ input[1] = <<Dash, "c", Space, v>>) =>
            (result.tag = "Ok" <=> (v = "x" \/ ~ValuesCaseSensitive))

(***************************************************************************)
(* C21: in the idle states WaitBinary and WaitOptionOrParam a whitespace   *)
(* character is skipped and never opens a token: with the default line     *)
(* configuration and a line without quotes, leading, trailing and repeated *)
(* whitespace produce no extra argument (there are as many arguments as    *)
(* tokens at most) and no Binary or Param value begins with a whitespace   *)
(* character.                                                              *)
(***************************************************************************)
C21_WhitespaceSkipped ==
    (Finished /\ parser = Parser_new /\ Quote \notin Chars(input[1]) /\ result.tag = "Ok") =>
        /\ Len(result.args) <= Cardinality(TokenStartPositions(input[1]))
        /\ \A i \in 1..Len(result.args) :
              result.args[i].kind \in {"Binary", "Param"} =>
                  /\ result.args[i].value_text[1] # <<>>
                  /\ ~IsWhitespace(result.args[i].value_text[1][1])

(***************************************************************************)
(* SpecReparse: parse_line of quoted values and of lines of a few tokens,  *)
(* without matchers and with an option matcher c (Always) and a matcher    *)
(* for any param; every emitted value is parsed again as a line of its own *)
(***************************************************************************)
ReparseParsers ==
    {[Parser_new EXCEPT !.first_arg_is_binary = FALSE],
     [Parser_new EXCEPT !.matchers = push_all(<<>>, <<optionC, anyParam>>)]}

ReparseValues == CharLines({Quote, Space, "c", Dash}, MaxValueLen)

ReparseTokens == {<<Dash, "c">>, <<"c">>, <<"c", Quote>>, <<Quote, "c", Quote>>}

ReparseLines ==
    {Quoted(value) : value \in ReparseValues} \cup TokenLines(ReparseTokens, MaxTokens)

InitReparse == \E p \in ReparseParsers, text \in ReparseLines : InitLine(p, text)

SpecReparse == InitReparse /\ [][NextLine]_vars

\* The line that stands for a value: the value in quotes when it contains
\* whitespace, the value itself otherwise
StandaloneLine(value) ==
    IF \E i \in 1..Len(value) : IsWhitespace(value[i]) THEN Quoted(value) ELSE value

\* The value parsed as a line of its own gives one argument with that value
ReparsesToItself(reparsed, value) ==
    /\ reparsed.tag = "Ok"
    /\ Len(reparsed.args) = 1
    /\ reparsed.args[1].value_text = Some(value)

Reparsed(p, value) ==
    ReparsesToItself(parse_line([p EXCEPT !.first_arg_is_binary = FALSE],
                                StandaloneLine(value)), value)

\* The values of the emitted Params and Options
EmittedValues(emitted) ==
    {emitted[i].value_text[1] :
        i \in {j \in 1..Len(emitted) : /\ emitted[j].kind \in {"Param", "Option"}
                                       /\ emitted[j].value_text # None}}

get_default_text(type_id) ==
    CASE type_id = "QuotedParamNotFollowedByWhitespaceChar" ->
            <<"Q", "u", "o", "t", "e", "d", " ", "p", "a", "r", "a", "m", "e",
             "t", "e", "r", " ", "n", "o", "t", " ", "f", "o", "l", "l", "o",
             "w", "e", "d", " ", "b", "y", " ", "w", "h", "i", "t", "e", "s",
             "p", "a", "c", "e", " ", "c", "h", "a", "r", "a", "c", "t", "e",
             "r">>
      [] type_id = "NoMatchForOptionWithValue" ->
            <<"N", "o", " ", "m", "a", "t", "c", "h", " ", "f", "o", "r", " ",
             "o", "p", "t", "i", "o", "n", " ", "w", "i", "t", "h", " ", "v",
             "a", "l", "u", "e">>
      [] type_id = "QuotedOptionValueNotFollowedByWhitespaceChar" ->
            <<"Q", "u", "o", "t", "e", "d", " ", "o", "p", "t", "i", "o", "n",
             " ", "v", "a", "l", "u", "e", " ", "n", "o", "t", " ", "f", "o",
             "l", "l", "o", "w", "e", "d", " ", "b", "y", " ", "w", "h", "i",
             "t", "e", "s", "p", "a", "c", "e", " ", "c", "h", "a", "r", "a",
             "c", "t", "e", "r">>
      [] type_id = "EscapeCharacterAtEndOfLine" ->
            <<"E", "s", "c", "a", "p", "e", " ", "c", "h", "a", "r", "a", "c",
             "t", "e", "r", " ", "i", "s", " ", "a", "t", " ", "e", "n", "d",
             " ", "o", "f", " ", "l", "i", "n", "e">>
      [] type_id = "EscapedCharacterInOptionValueCannotBeEscaped" ->
            <<"E", "s", "c", "a", "p", "e", "d", " ", "c", "h", "a", "r", "a",
             "c", "t", "e", "r", " ", "i", "n", " ", "o", "p", "t", "i", "o",
             "n", " ", "v", "a", "l", "u", "e", " ", "c", "a", "n", "n", "o",
             "t", " ", "b", "e", " ", "e", "s", "c", "a", "p", "e", "d">>
      [] type_id = "EscapeCharacterAtEndOfOptionValue" ->
            <<"E", "s", "c", "a", "p", "e", " ", "c", "h", "a", "r", "a", "c",
             "t", "e", "r", " ", "i", "s", " ", "a", "t", " ", "e", "n", "d",
             " ", "o", "f", " ", "o", "p", "t", "i", "o", "n", " ", "v", "a",
             "l", "u", "e">>
      [] type_id = "ParamMissingClosingQuoteCharacter" ->
            <<"P", "a", "r", "a", "m", "e", "t", "e", "r", " ", "m", "i", "s",
             "s", "i", "n", "g", " ", "c", "l", "o", "s", "i", "n", "g", " ",
             "q", "u", "o", "t", "e", " ", "c", "h", "a", "r", "a", "c", "t",
             "e", "r">>
      [] type_id = "EscapedCharacterInParamCannotBeEscaped" ->
            <<"E", "s", "c", "a", "p", "e", "d", " ", "c", "h", "a", "r", "a",
             "c", "t", "e", "r", " ", "i", "n", " ", "p", "a", "r", "a", "m",
             "e", "t", "e", "r", " ", "c", "a", "n", "n", "o", "t", " ", "b",
             "e", " ", "e", "s", "c", "a", "p", "e", "d">>
      [] type_id = "EscapeCharacterAtEndOfParam" ->
            <<"E", "s", "c", "a", "p", "e", " ", "c", "h", "a", "r", "a", "c",
             "t", "e", "r", " ", "i", "s", " ", "a", "t", " ", "e", "n", "d",
             " ", "o", "f", " ", "p", "a", "r", "a", "m", "e", "t", "e", "r">>
      [] type_id = "OptionCodeMissingDoubleAnnouncer" ->
            <<"O", "p", "t", "i", "o", "n", " ", "c", "o", "d", "e", " ", "m",
             "i", "s", "s", "i", "n", "g", " ", "d", "o", "u", "b", "l", "e",
             " ", "a", "n", "n", "o", "u", "n", "c", "e", "r">>
      [] type_id = "OptionCodeCannotContainQuoteChar" ->
            <<"O", "p", "t", "i", "o", "n", " ", "c", "o", "d", "e", " ", "c",
             "a", "n", "n", "o", "t", " ", "c", "o", "n", "t", "a", "i", "n",
             " ", "q", "u", "o", "t", "e", " ", "c", "h", "a", "r", "a", "c",
             "t", "e", "r">>
      [] type_id = "OptionCodeCannotContainEscapeChar" ->
            <<"O", "p", "t", "i", "o", "n", " ", "c", "o", "d", "e", " ", "c",
             "a", "n", "n", "o", "t", " ", "c", "o", "n", "t", "a", "i", "n",
             " ", "e", "s", "c", "a", "p", "e", " ", "c", "h", "a", "r", "a",
             "c", "t", "e", "r">>
      [] type_id = "OptionValueCannotStartWithOptionAnnouncer" ->
            <<"O", "p", "t", "i", "o", "n", " ", "v", "a", "l", "u", "e", " ",
             "c", "a", "n", "n", "o", "t", " ", "s", "t", "a", "r", "t", " ",
             "w", "i", "t", "h", " ", "o", "p", "t", "i", "o", "n", " ", "a",
             "n", "n", "o", "u", "n", "c", "e", "r">>
      [] type_id = "OptionMissingValue" ->
            <<"O", "p", "t", "i", "o", "n", " ", "m", "i", "s", "s", "i", "n",
             "g", " ", "v", "a", "l", "u", "e">>
      [] type_id = "OptionValueMissingClosingQuoteCharacter" ->
            <<"O", "p", "t", "i", "o", "n", " ", "v", "a", "l", "u", "e", " ",
             "m", "i", "s", "s", "i", "n", "g", " ", "c", "l", "o", "s", "i",
             "n", "g", " ", "q", "u", "o", "t", "e", " ", "c", "h", "a", "r",
             "a", "c", "t", "e", "r">>
      [] type_id = "UnmatchedOption" ->
            <<"O", "p", "t", "i", "o", "n", " ", "n", "o", "t", " ", "m", "a",
             "t", "c", "h", "e", "d">>
      [] type_id = "UnmatchedParam" ->
            <<"P", "a", "r", "a", "m", "e", "t", "e", "r", " ", "n", "o", "t",
             " ", "m", "a", "t", "c", "h", "e", "d">>

\* usize::to_string
RECURSIVE to_string(_)
to_string(n) ==
    IF n < 10 THEN <<(<<"0", "1", "2", "3", "4", "5", "6", "7", "8", "9">>)[n + 1]>>
    ELSE to_string(n \div 10) \o to_string(n % 10)

\* <ParseError as Display>::fmt: id_text is computed and not written
ParseError_fmt(error) ==
    LET position == <<" ", "[", "l", ":">> \o to_string(error.line_char_index)
                        \o <<" ", "a", ":">> \o to_string(error.arg_index)
        fields ==
            IF error.option_index # None
            THEN <<" ", "o", ":">> \o to_string(error.option_index[1])
                    \o (IF error.option_code # None
                        THEN <<" ", "c", ":">> \o error.option_code[1] \o <<Quote>>
                        ELSE <<>>)
            ELSE IF error.param_index # None
            THEN <<" ", "p", ":">> \o to_string(error.param_index[1])
                    \o <<" ", "t", ":">> \o error.param_value_text \o <<Quote>>
            ELSE <<>>
    IN  <<"(">> \o position \o fields \o <<"]">> \o <<")">>

DisplayStep ==
    /\ pc = "done"
    /\ result.tag = "Err"
    /\ pc' = "displayed"
    /\ input' = Append(input, ParseError_fmt(result.error[1]))
    /\ UNCHANGED <<parser, mode, arg_no, pos, parse_state, args, result>>

InitDisplay == \E text \in FailLines : InitLine(DocExampleParser, text)

NextDisplay == ProcessCharStep \/ FinaliseStep \/ DisplayStep

SpecDisplay == InitDisplay /\ [][NextDisplay]_vars

(***************************************************************************)
(* C23: the display form of a ParseError starts with the message text of   *)
(* its error kind in parentheses, followed by the bracketed position       *)
(* fields:  (<message>) [l:<char> a:<arg> o:<idx> c:"<code>"]  for option  *)
(* errors and the same with  p:<idx> t:"<text>"  for param errors, the     *)
(* code or text enclosed in a pair of double quotes.                       *)
(***************************************************************************)
C23_Expected(error) ==
    <<"(">> \o get_default_text(error.type_id) \o <<")">>
        \o <<" ", "[", "l", ":">> \o to_string(error.line_char_index)
        \o <<" ", "a", ":">> \o to_string(error.arg_index)
        \o (IF error.option_index # None
            THEN <<" ", "o", ":">> \o to_string(error.option_index[1])
                    \o <<" ", "c", ":", Quote>> \o error.option_code[1] \o <<Quote>>
            ELSE <<" ", "p", ":">> \o to_string(error.param_index[1])
                    \o <<" ", "t", ":", Quote>> \o error.param_value_text \o <<Quote>>)
        \o <<"]">>

C23_DisplayForm ==
    pc = "displayed" => input[2] = C23_Expected(result.error[1])

(***************************************************************************)
(* C24: with multi_char_option_code_requires_double_announcer set, the     *)
(* option  -a , one announcer character and a code of one character, is    *)
(* accepted: the line  -a  parses to the Option with code a and no         *)
(* OptionCodeMissingDoubleAnnouncer error is raised.                       *)
(***************************************************************************)
C24_SingleCharCodeAccepted ==
    (/\ Finished
     /\ parser = [MultiCharParser EXCEPT !.first_arg_is_binary = FALSE]
     /\ input[1] = <<Dash, "a">>) =>
        /\ result.tag = "Ok"
        /\ ArgViews(result.args) =
            <<[kind |-> "Option", code |-> Some(<<"a">>), value_text |-> None, arg_index |-> 0]>>

(***************************************************************************)
(* C25: with multi_char_option_code_requires_double_announcer set, the     *)
(* option  --ab , two announcer characters and a code of two characters,   *)
(* is accepted and the emitted Option's code is  ab , the text after the   *)
(* announcers, not the empty text and not a text with an announcer in it.  *)
(***************************************************************************)
C25_DoubleAnnouncerCode ==
    (/\ Finished
     /\ parser = [MultiCharParser EXCEPT !.first_arg_is_binary = FALSE]
     /\ input[1] = <<Dash, Dash, "a", "b">>) =>
        /\ result.tag = "Ok"
        /\ ArgViews(result.args) =
            <<[kind |-> "Option", code |-> Some(<<"a", "b">>), value_text |-> None,
               arg_index |-> 0]>>

(***************************************************************************)
(* C26: when the only matcher accepting the code is IfPossible and the     *)
(* line ends after the code and its whitespace value announcer ( -c  with  *)
(* a space after it), no value is possible and the option is emitted with  *)
(* value None; the parse does not fail with OptionMissingValue.            *)
(***************************************************************************)
C26_IfPossibleAtEndOfLine ==
    (Finished /\ parser = IfPossibleParser /\ input[1] = <<Dash, "c", Space>>) =>
        /\ result.tag = "Ok"
        /\ ArgViews(result.args) =
            <<[kind |-> "Option", code |-> Some(<<"c">>), value_text |-> None, arg_index |-> 0]>>

(***************************************************************************)
(* C27: when every matcher accepting the code is Always and the option is  *)
(* the last token of the line and has no value, the parse fails with       *)
(* OptionMissingValue, both when the line ends right after the code ( -c ) *)
(* and when it ends after a whitespace announcer ( -c  and a space).       *)
(***************************************************************************)
C27_AlwaysMissingValue ==
    (Finished /\ parser = AlwaysParser
              /\ input[1] \in {<<Dash, "c">>, <<Dash, "c", Space>>}) =>
        /\ result.tag = "Err"
        /\ result.error[1].type_id = "OptionMissingValue"

(***************************************************************************)
(* C28: env-args mode and line mode agree.  For OS arguments without       *)
(* whitespace, quote or escape characters and ' ' the only value           *)
(* announcer, parse_env_args returns the same kinds, codes and values (or  *)
(* the same error kind) as parse_line of the arguments joined by single    *)
(* spaces; in particular a last OS argument that is an option code is      *)
(* finalised as at the end of a line and emitted as an Option.             *)
(***************************************************************************)
\* The two results agree in the arguments or in the kind of error
SameOutcome(of_env_args, of_line) ==
    \/ /\ of_env_args.tag = "Ok"
       /\ of_line.tag = "Ok"
       /\ ArgViews(of_env_args.args) = ArgViews(of_line.args)
    \/ /\ of_env_args.tag = "Err"
       /\ of_line.tag = "Err"
       /\ of_env_args.error[1].type_id = of_line.error[1].type_id

C28_EnvAgreesWithLine ==
    (Finished /\ mode = "env") => SameOutcome(result, parse_line(parser, Join(input)))

(***************************************************************************)
(* SpecRegex: parse_line of one-token lines under a param matcher whose    *)
(* value filter is RegexOrText::with_regex of the pattern x, with params   *)
(* matched with and without case sensitivity                               *)
(***************************************************************************)
RegexPattern == <<"x">>

paramRegexX ==
    [Matcher_new_param(<<"paramRegexX">>) EXCEPT
        !.value_text = Some(with_regex(Regex_new(RegexPattern, FALSE)))]

RegexParsers ==
    {[Parser_new EXCEPT !.matchers = push_all(<<>>, <<paramRegexX>>),
                        !.first_arg_is_binary = FALSE,
                        !.params_case_sensitive = sensitive] : sensitive \in BOOLEAN}

RegexLines == CharLines({"x", "X", "y"}, MaxValueLen) \ {<<>>}

InitRegex == \E p \in RegexParsers, text \in RegexLines : InitLine(p, text)

SpecRegex == InitRegex /\ [][NextLine]_vars

(***************************************************************************)
(* C29: a RegexOrText created with with_regex(r) matches exactly the       *)
(* strings the supplied pattern r matches, case-sensitively when the       *)
(* effective flag is true and with the case-insensitive build of the same  *)
(* pattern otherwise, and rejects the strings r does not match: a param    *)
(* is accepted by the matcher exactly when the pattern x matches it.       *)
(***************************************************************************)
C29_RegexMatchesPattern ==
    (Finished /\ parser \in RegexParsers) =>
        (result.tag = "Ok" <=>
            Regex_is_match(Regex_new(RegexPattern, ~parser.params_case_sensitive), input[1]))

(***************************************************************************)
(* C30: in every successful parse result the i-th element (0-based) has    *)
(* arg_index i, every Option has option_index equal to the number of       *)
(* Options before it and every Param has param_index equal to the number   *)
(* of Params before it; during a parse arg_count = option_count +          *)
(* param_count + (1 if a Binary was emitted, else 0), and no counter ever  *)
(* decreases.                                                              *)
(***************************************************************************)
\* The number of arguments of a kind among the first n emitted
KindBefore(emitted, kind, n) == Cardinality({j \in 1..n : emitted[j].kind = kind})

\* The indices of the emitted arguments are their places among their kind
IndicesInOrder(emitted) ==
    \A i \in 1..Len(emitted) :
        /\ emitted[i].arg_index = i - 1
        /\ emitted[i].kind = "Option" =>
                emitted[i].option_index = Some(KindBefore(emitted, "Option", i - 1))
        /\ emitted[i].kind = "Param" =>
                emitted[i].param_index = Some(KindBefore(emitted, "Param", i - 1))

CountersAddUp ==
    /\ parse_state.arg_count = Len(args)
    /\ parse_state.arg_count = parse_state.option_count + parse_state.param_count
                                    + KindBefore(args, "Binary", Len(args))

C30_Counters ==
    /\ CountersAddUp
    /\ [][/\ CountersAddUp'
          /\ IndicesInOrder(args')
          /\ result'.tag = "Ok" => (result'.args = args' /\ IndicesInOrder(result'.args))
          /\ parse_state'.arg_count >= parse_state.arg_count
          /\ parse_state'.option_count >= parse_state.option_count
          /\ parse_state'.param_count >= parse_state.param_count]_vars

\* A successful parse of a Binary, an Option and a Param
C30_Witness ==
    /\ Finished
    /\ result.tag = "Ok"
    /\ Len(result.args) = 3
    /\ result.args[1].kind = "Binary"
    /\ result.args[2].kind = "Option" /\ result.args[2].option_index = Some(0)
    /\ result.args[3].kind = "Param" /\ result.args[3].param_index = Some(0)

(***************************************************************************)
(* SpecEscape: parse_line of one param or one option value, unquoted or    *)
(* quoted, whose body holds quote characters, spaces and escape            *)
(* characters, under an option matcher c (Always) and a matcher for any    *)
(* param, without an escape character and with the escape character \     *)
(***************************************************************************)
Backslash == "\\"

EscapeMatchers == push_all(<<>>, <<optionCAlways, anyParam>>)

NoEscapeParser ==
    [Parser_new EXCEPT !.matchers = EscapeMatchers, !.first_arg_is_binary = FALSE]

\* Parser::set_escape_char with the default escapeable_logical_chars
EscapeParser == [NoEscapeParser EXCEPT !.escape_char = Some(Backslash)]

\* ... and with whitespace and option announcers escapable as well
EscapeMoreParser ==
    [EscapeParser EXCEPT
        !.escapeable_logical_chars = {"Escape", "Quote", "Whitespace", "OptionAnnouncer"}]

EscapeParsers == {NoEscapeParser, EscapeParser, EscapeMoreParser}

\* The text  -c  and a space, which announces a value of option c
OptionCPrefix == <<Dash, "c", Space>>

\* What comes before the body: the first character of an unquoted or of a
\* quoted param, and the same for the value of option c
EscapePrefixes ==
    {<<"c">>, <<Quote>>, OptionCPrefix \o <<"c">>, OptionCPrefix \o <<Quote>>}

EscapeBodies == CharLines({Quote, Space, "c", Backslash}, MaxValueLen)

\* A param or a value of option c that begins with the escape character
EscapeFirstLines ==
    {prefix \o <<Backslash, c>> \o rest :
        prefix \in {<<>>, OptionCPrefix},
        c \in {Quote, Space, "c", Backslash, Dash},
        rest \in {<<>>, <<"5">>}}

EscapeLines ==
    {prefix \o body : prefix \in EscapePrefixes, body \in EscapeBodies}
        \cup EscapeFirstLines

InitEscape == \E p \in EscapeParsers, text \in EscapeLines : InitLine(p, text)

SpecEscape == InitEscape /\ [][NextLine]_vars

\* A token that starts with the ordinary character c and has neither
\* whitespace nor the parser's escape character in it
PlainToken(p, text) ==
    /\ text # <<>>
    /\ text[1] = "c"
    /\ \A i \in 1..Len(text) :
            ~IsWhitespace(text[i]) /\ p.escape_char # Some(text[i])

\* The parse gave exactly one argument of the kind, with the value
OneArg(kind, value) ==
    /\ result.tag = "Ok"
    /\ Len(result.args) = 1
    /\ result.args[1].kind = kind
    /\ result.args[1].value_text = Some(value)

(***************************************************************************)
(* C31: a quote character inside a token that did not start with a quote   *)
(* is an ordinary character.  A line that is one unquoted param, or option *)
(* c with one unquoted value, the token holding neither whitespace nor the *)
(* escape character, parses to that one argument with the whole token as   *)
(* its value: every quote character of the token is in the value, one or   *)
(* two in a row, in the middle or at the end.                              *)
(***************************************************************************)
C31_QuoteIsLiteral ==
    Finished =>
        /\ PlainToken(parser, input[1]) => OneArg("Param", input[1])
        /\ \A token \in {SubSeq(input[1], 4, Len(input[1]))} :
                (/\ Len(input[1]) > 3
                 /\ SubSeq(input[1], 1, 3) = OptionCPrefix
                 /\ PlainToken(parser, token)) => OneArg("Option", token)

\* The value  c""c"  of option c, under the parser with an escape character
C31_Witness ==
    /\ Finished
    /\ parser = EscapeParser
    /\ input[1] = OptionCPrefix \o <<"c", Quote, Quote, "c", Quote>>
    /\ OneArg("Option", <<"c", Quote, Quote, "c", Quote>>)

(***************************************************************************)
(* SpecUnclosed: parse_line and parse_env_args, under the matchers of the  *)
(* documentation's example, of inputs whose tokens may open a quotation    *)
(* and leave it open, close it, or end in a doubled quote character        *)
(***************************************************************************)
UnclosedParsers == {DocExampleParser, [DocExampleParser EXCEPT !.first_arg_is_binary = FALSE]}

UnclosedTokens ==
    {<<"x">>, <<Dash, "b">>, <<Quote, "x">>, <<Quote, "x", Quote>>,
     <<Quote, "x", Quote, Quote>>}

InitUnclosed ==
    \/ \E p \in UnclosedParsers, text \in TokenLines(UnclosedTokens, MaxTokens) :
            InitLine(p, text)
    \/ \E p \in UnclosedParsers,
           env_args \in UNION {[1..k -> UnclosedTokens] : k \in 0..MaxTokens} :
            InitEnv(p, env_args)

SpecUnclosed == InitUnclosed /\ [][NextFail]_vars

\* The next step is the end of the input for the token being read: the end
\* of the line or of the last argument, or the separator between two
\* environment arguments
InputEnds == pc = "finalise" \/ (mode = "env" /\ pc = "arg" /\ arg_no > 0)

\* The parser is inside a quoted param, a closing quote not yet seen
InQuotedParam == parse_state.arg_parse_state = "InParam" /\ parse_state.value_quoted

\* The parser is inside a quoted option value, a closing quote not yet seen
InQuotedValue ==
    /\ parse_state.arg_parse_state = "InOption"
    /\ parse_state.option_parse_state = "InValue"
    /\ parse_state.value_quoted

\* The character before was the quote character that closes the quotation
AfterClosingQuote ==
    \/ parse_state.arg_parse_state = "InParamPossibleEndQuote"
    \/ /\ parse_state.arg_parse_state = "InOption"
       /\ parse_state.option_parse_state = "InValuePossibleEndQuote"

(***************************************************************************)
(* C32: when the input ends, or an environment argument ends, inside a     *)
(* quotation that has not been closed, the parse fails at that step, with  *)
(* ParamMissingClosingQuoteCharacter in a param and                        *)
(* OptionValueMissingClosingQuoteCharacter in an option value.  When it    *)
(* ends right after the closing quote, the step emits one argument whose   *)
(* value is the text between the quotes, unless no matcher accepts the     *)
(* argument.                                                               *)
(***************************************************************************)
C32_UnclosedQuote ==
    [][InputEnds =>
        /\ InQuotedParam =>
                /\ pc' = "done"
                /\ result'.tag = "Err"
                /\ result'.error[1].type_id = "ParamMissingClosingQuoteCharacter"
        /\ InQuotedValue =>
                /\ pc' = "done"
                /\ result'.tag = "Err"
                /\ result'.error[1].type_id = "OptionValueMissingClosingQuoteCharacter"
        /\ AfterClosingQuote =>
                \/ /\ result'.tag # "Err"
                   /\ Len(args') = Len(args) + 1
                   /\ SubSeq(args', 1, Len(args)) = args
                   /\ args'[Len(args')].value_text = Some(parse_state.value_bldr)
                   /\ args'[Len(args')].kind =
                        IF parse_state.arg_parse_state = "InOption" THEN "Option"
                        ELSE IF parse_state.current_param_is_binary THEN "Binary" ELSE "Param"
                \/ /\ result'.tag = "Err"
                   /\ result'.error[1].type_id \in {"UnmatchedParam", "UnmatchedOption"}]_vars

\* parse_env_args of  -b  "x"  "x : option b got the value x between the
\* quotes, and the third argument ended inside its quotation
C32_Witness ==
    /\ Finished
    /\ mode = "env"
    /\ ~parser.first_arg_is_binary
    /\ input = <<<<Dash, "b">>, <<Quote, "x", Quote>>, <<Quote, "x">>>>
    /\ Len(args) = 1
    /\ args[1].kind = "Option"
    /\ args[1].value_text = Some(<<"x">>)
    /\ result.tag = "Err"
    /\ result.error[1].type_id = "ParamMissingClosingQuoteCharacter"

\* The parser reads the body of a param, or of an option value
InBodyOfParam == parse_state.arg_parse_state = "InParam"

InBodyOfValue ==
    parse_state.arg_parse_state = "InOption" /\ parse_state.option_parse_state = "InValue"

\* The character before, in the body of a param or of an option value, was
\* the escape character
InParamEscaped == parse_state.arg_parse_state = "InParamEscaped"

InValueEscaped ==
    parse_state.arg_parse_state = "InOption" /\ parse_state.option_parse_state = "InValueEscaped"

\* The step appends c to the value and goes on reading the body, in the
\* same quotation as before and with no argument emitted
EscapedCharAppended(c) ==
    /\ result' = NoResult
    /\ args' = args
    /\ parse_state'.value_bldr = Append(parse_state.value_bldr, c)
    /\ parse_state'.value_quoted = parse_state.value_quoted
    /\ parse_state'.arg_parse_state =
            IF InParamEscaped THEN "InParam" ELSE parse_state.arg_parse_state
    /\ InValueEscaped => parse_state'.option_parse_state = "InValue"

C34_EscapeFirst ==
    (Finished /\ parser = EscapeMoreParser) =>
        \A c \in {Dash, Backslash}, rest \in {<<>>, <<"5">>} :
            /\ input[1] = <<Backslash, c>> \o rest => OneArg("Param", <<c>> \o rest)
            /\ input[1] = OptionCPrefix \o <<Backslash, c>> \o rest =>
                    OneArg("Option", <<c>> \o rest)

(***************************************************************************)
(* SpecCode: parse_line, without matchers, of lines of option codes,       *)
(* spaces and = when = is the only option value announcer                  *)
(***************************************************************************)
\* Parser::set_option_value_announcer_chars(&['='])
EqualsOnlyParser == [Parser_new EXCEPT !.option_value_announcer_chars = {"="}]

CodeParsers == {EqualsOnlyParser, [EqualsOnlyParser EXCEPT !.first_arg_is_binary = FALSE]}

CodeLines ==
    CharLines({"a", Dash, Space, "="}, MaxLineLen)
        \cup TokenLines({<<Dash, "a">>, <<"p">>}, MaxTokens)

InitCode == \E p \in CodeParsers, text \in CodeLines : InitLine(p, text)

SpecCode == InitCode /\ [][NextLine]_vars

(***************************************************************************)
(* C35: in line mode a whitespace character ends an option code although   *)
(* it is not an option value announcer.  With = as the only option value   *)
(* announcer, no matchers and first_arg_is_binary false, the line  -a p    *)
(* parses to the Option with code a and the Param p; and no Option of a    *)
(* successful parse has a whitespace character in its code.                *)
(***************************************************************************)
C35_WhitespaceEndsCode ==
    (Finished /\ Space \notin parser.option_value_announcer_chars) =>
        /\ (input[1] = <<Dash, "a", Space, "p">> /\ ~parser.first_arg_is_binary) =>
                /\ result.tag = "Ok"
                /\ Len(result.args) = 2
                /\ result.args[1].kind = "Option"
                /\ result.args[1].code = Some(<<"a">>)
                /\ result.args[2].kind = "Param"
                /\ result.args[2].value_text = Some(<<"p">>)
        /\ result.tag = "Ok" =>
                \A i \in 1..Len(result.args) :
                    result.args[i].kind = "Option" =>
                        \A k \in 1..Len(result.args[i].code[1]) :
                            ~IsWhitespace(result.args[i].code[1][k])

(***************************************************************************)
(* SpecVerdict: parse_line without matchers and under every list of up to  *)
(* MaxMatchers matchers that all accept option code c and differ in        *)
(* option_has_value and in option_value_can_start_with_option_announcer    *)
(***************************************************************************)
optionCNever ==
    [Matcher_new_option(<<"optionCNever">>) EXCEPT
        !.option_codes = Some(<<with_text(<<"c">>)>>),
        !.option_has_value = "Never"]

optionCAlwaysAnnouncer ==
    [Matcher_new_option(<<"optionCAlwaysAnnouncer">>) EXCEPT
        !.option_codes = Some(<<with_text(<<"c">>)>>),
        !.option_has_value = "Always",
        !.option_value_can_start_with_option_announcer = TRUE]

VerdictPool == {optionCNever, optionCIfPossible, optionCAlways, optionCAlwaysAnnouncer}

\* No matchers and every list from the pool, with the default option value
\* announcer and with = as a second one
VerdictParsers ==
    {[Parser_new EXCEPT !.matchers = push_all(<<>>, ms),
                        !.first_arg_is_binary = FALSE,
                        !.option_value_announcer_chars = announcers] :
        ms \in UNION {[1..k -> VerdictPool] : k \in 0..MaxMatchers},
        announcers \in {{Space}, {Space, "="}}}

VerdictTokens == {<<Dash, "c">>, <<"5">>, <<Dash, "c", "=", "5">>}

\* Lines of the tokens, and  -c  followed by two spaces and a token
VerdictLines ==
    TokenLines(VerdictTokens, MaxTokens)
        \cup {<<Dash, "c", Space, Space>> \o token : token \in VerdictTokens}

InitVerdict == \E p \in VerdictParsers, text \in VerdictLines : InitLine(p, text)

SpecVerdict == InitVerdict /\ [][NextLine]_vars

(***************************************************************************)
(* C36: parse_line never aborts abnormally.  Whatever the matchers and     *)
(* their order, a matcher with option_has_value Never that accepts the     *)
(* code of an option among matchers with Always or IfPossible for the same *)
(* code included, the call returns an Arg list or a ParseError.            *)
(***************************************************************************)
C36_NeverAborts == result.tag # "Panic"

\* The next step decides, at the first character after an announced option
\* value, whether the option has a value, and the parser flags that
\* character as an announcer
FirstCharFlagged ==
    /\ pc = "chars"
    /\ parse_state.arg_parse_state = "InOption"
    /\ parse_state.option_parse_state = "WaitOptionValue"
    /\ input[1][pos + 1] \in parser.option_value_announcer_chars

\* Two matchers for the same code, both Always, one letting a value start
\* with an announcer and one not, in either order
AllowAndForbid ==
    parser.matchers \in {push_all(<<>>, <<optionCAlways, optionCAlwaysAnnouncer>>),
                         push_all(<<>>, <<optionCAlwaysAnnouncer, optionCAlways>>)}

(***************************************************************************)
(* C37: the value verdict does not depend on the registration order.  With *)
(* two matchers that accept the same option code, both Always, one         *)
(* allowing and one forbidding a value that starts with an announcer, a    *)
(* first character of the value that is flagged as an announcer makes the  *)
(* parse fail with OptionValueCannotStartWithOptionAnnouncer whichever of  *)
(* the two was pushed first.                                               *)
(***************************************************************************)
C37_RegistrationOrder ==
    [][(FirstCharFlagged /\ AllowAndForbid) =>
            /\ result'.tag = "Err"
            /\ result'.error[1].type_id = "OptionValueCannotStartWithOptionAnnouncer"]_vars

C39_OneBinary ==
    (Finished /\ result.tag = "Ok") =>
        \A i \in 1..Len(result.args) :
            result.args[i].kind = "Binary" =>
                /\ i = 1
                /\ parser.first_arg_is_binary
                /\ \E k \in 1..Len(input[1]) : ~IsWhitespace(input[1][k])

(***************************************************************************)
(* C40: every ParseError that parse_line returns carries, as               *)
(* line_char_index, the 0-based index of the character that was being      *)
(* processed when the error was detected, or the length of the line when   *)
(* it was detected at the end of the input, and, as arg_index, the number  *)
(* of arguments emitted before the failure.                                *)
(***************************************************************************)
C40_ErrorPosition ==
    [][(mode = "line" /\ result.tag = "None" /\ result'.tag = "Err") =>
            /\ result'.error[1].line_char_index =
                    IF pc = "finalise" THEN Len(input[1]) ELSE pos
            /\ pc = "chars" => pos < Len(input[1])
            /\ result'.error[1].arg_index = Len(args)]_vars

\* The line  x -a -z  : the Binary and option a were emitted, and no matcher
\* accepts option z, which is found at the end of the line
C40_Witness ==
    /\ Finished
    /\ mode = "line"
    /\ parser.first_arg_is_binary
    /\ input[1] = <<"x", Space, Dash, "a", Space, Dash, "z">>
    /\ result.tag = "Err"
    /\ result.error[1].type_id = "UnmatchedOption"
    /\ result.error[1].line_char_index = 7
    /\ result.error[1].arg_index = 2

====
